---- MODULE Spec2Model ----
(***************************************************************************)
(* A model of the email-mcp server: the CallTool request handler of        *)
(* src/index.ts, handleGmailTool of src/gmail.ts and the helpers of        *)
(* src/utils.ts, src/secrets.ts and src/auth.ts they call.                 *)
(*                                                                         *)
(* A JavaScript string is a sequence of pieces.  A string whose characters *)
(* the code inspects (arguments, header values, the MIME text) is a        *)
(* sequence of one-character pieces; a message literal of the code is one  *)
(* piece.  A JavaScript value is a record tagged with its typeof.          *)
(***************************************************************************)
EXTENDS Integers, Sequences, FiniteSets, TLC

VARIABLES
    env,        \* process.env, as left by loadSecrets() at startup
    pc,         \* where the handler of the current request stands
    call,       \* the request being handled: its name and arguments
    frame,      \* the local variables the handler keeps across an await
    inflight,   \* the HTTP requests issued and not yet answered
    httpLog,    \* every HTTP request the current call has issued, in order
    respLog,    \* the outcome of every HTTP request answered, in order
    result,     \* what the handler gave back to its caller
    tools,      \* the catalog: the names of the tool descriptors, in order
    listed,     \* what the latest ListTools request was answered with
    earlier     \* whether a call has been handled to its end before

vars ==
    <<env, pc, call, frame, inflight, httpLog, respLog, result, tools, listed, earlier>>

(***************************************************************************)
(* Bounds of the model.                                                    *)
(***************************************************************************)
\* the largest number of message ids a list response carries
MaxIds == 2

(***************************************************************************)
(* JavaScript values.                                                      *)
(***************************************************************************)
Undefined == [t |-> "undefined"]

Null == [t |-> "null"]

Str(s) == [t |-> "string", s |-> s]

Num(n) == [t |-> "number", n |-> n, finite |-> TRUE]

NaN == [t |-> "number", n |-> 0, finite |-> FALSE]

Arr(a) == [t |-> "array", a |-> a]

Obj(o) == [t |-> "object", o |-> o]

Bool(b) == [t |-> "boolean", b |-> b]

\* ToBoolean(v)
Truthy(v) ==
    CASE v.t = "string" -> v.s # <<>>
      [] v.t = "number" -> v.finite /\ v.n # 0
      [] v.t = "array" -> TRUE
      [] v.t = "object" -> TRUE
      [] v.t = "boolean" -> v.b
      [] OTHER -> FALSE

\* a || b
Or(a, b) == IF Truthy(a) THEN a ELSE b

\* a ?? b
Coalesce(a, b) == IF a.t \in {"undefined", "null"} THEN b ELSE a

IsNullish(v) == v.t \in {"undefined", "null"}

\* v.k for a value v that is not null or undefined (v?.k otherwise)
Get(v, k) == IF v.t = "object" /\ k \in DOMAIN v.o THEN v.o[k] ELSE Undefined

(***************************************************************************)
(* src/utils.ts                                                            *)
(***************************************************************************)
WhiteSpace == {" ", "\t", "\n", "\r"}

RECURSIVE TrimStart(_)
TrimStart(s) ==
    IF s # <<>> /\ Head(s) \in WhiteSpace THEN TrimStart(Tail(s)) ELSE s

RECURSIVE TrimEnd(_)
TrimEnd(s) ==
    IF s # <<>> /\ s[Len(s)] \in WhiteSpace
    THEN TrimEnd(SubSeq(s, 1, Len(s) - 1))
    ELSE s

\* String.prototype.trim
Trim(s) == TrimEnd(TrimStart(s))

\* s.replace(/\\+$/, "")
RECURSIVE StripTrailingBackslashes(_)
StripTrailingBackslashes(s) ==
    IF s # <<>> /\ s[Len(s)] = "\\"
    THEN StripTrailingBackslashes(SubSeq(s, 1, Len(s) - 1))
    ELSE s

getString(value) ==
    IF value.t # "string" THEN Undefined
    ELSE IF Trim(value.s) = <<>> THEN Undefined
    ELSE Str(StripTrailingBackslashes(Trim(value.s)))

getNumber(value) ==
    IF value.t = "number" /\ value.finite THEN value ELSE Undefined

(***************************************************************************)
(* Characters and bytes.  The strings of the model are ASCII, so one       *)
(* character is one UTF-8 byte.                                            *)
(***************************************************************************)
Printable ==
    \* the grave accent, code 96, is written U+0060
    <<" ", "!", "\"", "#", "$", "%", "&", "'", "(", ")", "*", "+", ",",
      "-", ".", "/", "0", "1", "2", "3", "4", "5", "6", "7", "8", "9", ":",
      ";", "<", "=", ">", "?", "@", "A", "B", "C", "D", "E", "F", "G", "H",
      "I", "J", "K", "L", "M", "N", "O", "P", "Q", "R", "S", "T", "U", "V",
      "W", "X", "Y", "Z", "[", "\\", "]", "^", "_", "U+0060", "a", "b", "c",
      "d", "e", "f", "g", "h", "i", "j", "k", "l", "m", "n", "o", "p", "q",
      "r", "s", "t", "u", "v", "w", "x", "y", "z", "{", "|", "}", "~">>

PrintableChars == {Printable[i] : i \in 1..Len(Printable)}

\* the byte of an ASCII character
CharCode(c) ==
    CASE c = "\t" -> 9
      [] c = "\n" -> 10
      [] c = "\r" -> 13
      [] OTHER -> 31 + (CHOOSE i \in 1..Len(Printable) : Printable[i] = c)

\* the character of a byte; a byte that is no ASCII text decodes to U+FFFD
CharOf(b) ==
    CASE b = 9 -> "\t"
      [] b = 10 -> "\n"
      [] b = 13 -> "\r"
      [] b >= 32 /\ b <= 126 -> Printable[b - 31]
      [] OTHER -> "U+FFFD"

\* Buffer.from(s): the UTF-8 bytes of s
Bytes(s) == [i \in 1..Len(s) |-> CharCode(s[i])]

\* buffer.toString("utf8")
Utf8ToString(bytes) == [i \in 1..Len(bytes) |-> CharOf(bytes[i])]

Digits == {"0", "1", "2", "3", "4", "5", "6", "7", "8", "9"}

HexDigits == Digits \cup {"a", "b", "c", "d", "e", "f", "A", "B", "C", "D", "E", "F"}

Letters == {Printable[i] : i \in 34..59} \cup {Printable[i] : i \in 66..91}

\* s.replace(/from/g, to) for single characters
ReplaceChar(s, from, to) == [i \in 1..Len(s) |-> IF s[i] = from THEN to ELSE s[i]]

\* String.prototype.toLowerCase on ASCII
LowerChar(c) ==
    IF c \in {Printable[i] : i \in 34..59} THEN Printable[CharCode(c) - 31 + 32] ELSE c

toLowerCase(s) == [i \in 1..Len(s) |-> LowerChar(s[i])]

(***************************************************************************)
(* base64UrlEncode (src/utils.ts) and base64UrlDecode (src/secrets.ts)     *)
(***************************************************************************)
Base64Alphabet ==
    <<"A", "B", "C", "D", "E", "F", "G", "H", "I", "J", "K", "L", "M", "N",
      "O", "P", "Q", "R", "S", "T", "U", "V", "W", "X", "Y", "Z", "a", "b",
      "c", "d", "e", "f", "g", "h", "i", "j", "k", "l", "m", "n", "o", "p",
      "q", "r", "s", "t", "u", "v", "w", "x", "y", "z", "0", "1", "2", "3",
      "4", "5", "6", "7", "8", "9", "+", "/">>

Base64Chars == {Base64Alphabet[i] : i \in 1..Len(Base64Alphabet)}

Sextet(c) == (CHOOSE i \in 1..Len(Base64Alphabet) : Base64Alphabet[i] = c) - 1

\* buffer.toString("base64"), with its "=" padding
RECURSIVE ToBase64(_)
ToBase64(b) ==
    IF Len(b) = 0 THEN <<>>
    ELSE IF Len(b) = 1 THEN
        <<Base64Alphabet[(b[1] \div 4) + 1],
          Base64Alphabet[((b[1] % 4) * 16) + 1], "=", "=">>
    ELSE IF Len(b) = 2 THEN
        <<Base64Alphabet[(b[1] \div 4) + 1],
          Base64Alphabet[((b[1] % 4) * 16) + (b[2] \div 16) + 1],
          Base64Alphabet[((b[2] % 16) * 4) + 1], "=">>
    ELSE
        <<Base64Alphabet[(b[1] \div 4) + 1],
          Base64Alphabet[((b[1] % 4) * 16) + (b[2] \div 16) + 1],
          Base64Alphabet[((b[2] % 16) * 4) + (b[3] \div 64) + 1],
          Base64Alphabet[(b[3] % 64) + 1]>>
        \o ToBase64(SubSeq(b, 4, Len(b)))

\* s.replace(/=+$/g, "")
RECURSIVE StripTrailingEquals(_)
StripTrailingEquals(s) ==
    IF s # <<>> /\ s[Len(s)] = "="
    THEN StripTrailingEquals(SubSeq(s, 1, Len(s) - 1))
    ELSE s

base64UrlEncode(input) ==
    StripTrailingEquals(
        ReplaceChar(ReplaceChar(ToBase64(Bytes(input)), "+", "-"), "/", "_"))

\* s.padEnd(n, "=")
RECURSIVE PadEnd(_, _)
PadEnd(s, n) == IF Len(s) >= n THEN s ELSE PadEnd(Append(s, "="), n)

\* the base64 characters Buffer.from(s, "base64") decodes: it stops at the
\* first "=" and skips every character outside the alphabet
IsBase64Char(c) == c \in Base64Chars

Base64Payload(s) ==
    LET pads == {i \in 1..Len(s) : s[i] = "="}
        end == IF pads = {} THEN Len(s)
               ELSE (CHOOSE i \in pads : \A j \in pads : i <= j) - 1
    IN  SelectSeq(SubSeq(s, 1, end), IsBase64Char)

\* the bytes of a run of base64 characters
RECURSIVE FromBase64(_)
FromBase64(c) ==
    IF Len(c) < 2 THEN <<>>
    ELSE IF Len(c) = 2 THEN
        <<(Sextet(c[1]) * 4) + (Sextet(c[2]) \div 16)>>
    ELSE IF Len(c) = 3 THEN
        <<(Sextet(c[1]) * 4) + (Sextet(c[2]) \div 16),
          ((Sextet(c[2]) % 16) * 16) + (Sextet(c[3]) \div 4)>>
    ELSE
        <<(Sextet(c[1]) * 4) + (Sextet(c[2]) \div 16),
          ((Sextet(c[2]) % 16) * 16) + (Sextet(c[3]) \div 4),
          ((Sextet(c[3]) % 4) * 64) + Sextet(c[4])>>
        \o FromBase64(SubSeq(c, 5, Len(c)))

\* base64UrlDecode leaving "-" as it is: a variant that puts back "/" only
base64UrlDecodeKeepingDash(input) ==
    LET normalized == ReplaceChar(input, "_", "/")
        padded == PadEnd(normalized, ((Len(normalized) + 3) \div 4) * 4)
    IN  Utf8ToString(FromBase64(Base64Payload(padded)))

base64UrlDecode(input) ==
    LET normalized == ReplaceChar(ReplaceChar(input, "-", "+"), "_", "/")
        padded == PadEnd(normalized, ((Len(normalized) + 3) \div 4) * 4)
    IN  Utf8ToString(FromBase64(Base64Payload(padded)))

(***************************************************************************)
(* decodeHtmlEntities (src/secrets.ts)                                     *)
(***************************************************************************)
\* the length of the longest prefix of s whose characters are in set
RECURSIVE RunLen(_, _)
RunLen(s, set) ==
    IF s # <<>> /\ Head(s) \in set THEN 1 + RunLen(Tail(s), set) ELSE 0

\* the entity of /&(#x[0-9a-fA-F]+|#\d+|[a-zA-Z]+);/ at the start of r, the
\* text after an "&"; <<>> when the pattern does not match there
MatchEntity(r) ==
    LET h == IF Len(r) >= 2 /\ r[1] = "#" /\ r[2] = "x"
             THEN RunLen(SubSeq(r, 3, Len(r)), HexDigits) ELSE 0
        d == IF Len(r) >= 1 /\ r[1] = "#"
             THEN RunLen(Tail(r), Digits) ELSE 0
        l == RunLen(r, Letters)
    IN  IF h >= 1 /\ Len(r) >= h + 3 /\ r[h + 3] = ";" THEN SubSeq(r, 1, h + 2)
        ELSE IF d >= 1 /\ Len(r) >= d + 2 /\ r[d + 2] = ";" THEN SubSeq(r, 1, d + 1)
        ELSE IF l >= 1 /\ Len(r) >= l + 1 /\ r[l + 1] = ";" THEN SubSeq(r, 1, l)
        ELSE <<>>

HexValue(c) ==
    IF c \in Digits THEN CharCode(c) - 48
    ELSE IF c \in {"a", "b", "c", "d", "e", "f"} THEN CharCode(c) - 87
    ELSE CharCode(c) - 55

\* parseInt(s, radix) of a run of digits of that radix
RECURSIVE parseInt(_, _)
parseInt(s, radix) ==
    IF s = <<>> THEN 0
    ELSE (parseInt(SubSeq(s, 1, Len(s) - 1), radix) * radix) + HexValue(s[Len(s)])

MaxCodePoint == 1114111

\* String.fromCodePoint(n), for n in range; outside ASCII the character is
\* written U+n
fromCodePoint(n) ==
    IF n \in {9, 10, 13} \/ (n >= 32 /\ n <= 126) THEN <<CharOf(n)>>
    ELSE <<"U+" \o ToString(n)>>

\* the table named of decodeHtmlEntities
NamedEntityNames ==
    {<<"a", "m", "p">>, <<"l", "t">>, <<"g", "t">>, <<"q", "u", "o", "t">>,
     <<"a", "p", "o", "s">>, <<"n", "b", "s", "p">>}

NamedEntity(entity) ==
    CASE entity = <<"a", "m", "p">> -> <<"&">>
      [] entity = <<"l", "t">> -> <<"<">>
      [] entity = <<"g", "t">> -> <<">">>
      [] entity = <<"q", "u", "o", "t">> -> <<"\"">>
      [] entity = <<"a", "p", "o", "s">> -> <<"'">>
      [] entity = <<"n", "b", "s", "p">> -> <<" ">>

\* the members named inherits from Object.prototype whose names the entity
\* pattern matches: named[entity] is a function for them
InheritedNames ==
    {<<"c", "o", "n", "s", "t", "r", "u", "c", "t", "o", "r">>,
     <<"t", "o", "S", "t", "r", "i", "n", "g">>,
     <<"v", "a", "l", "u", "e", "O", "f">>}

\* String(named[entity]) for such a member: the replace takes the text of
\* the function for the replacement
InheritedText(entity) ==
    <<"function ">>
    \o (IF entity = <<"c", "o", "n", "s", "t", "r", "u", "c", "t", "o", "r">>
        THEN <<"Object">> ELSE entity)
    \o <<"() { [native code] }">>

\* the callback looking only at the entries of the table: a variant that
\* asks Object.hasOwn before it reads named[entity]
EntityReplacementOwnNames(entity) ==
    LET match == <<"&">> \o entity \o <<";">>
    IN  IF entity[1] = "#" THEN
            LET isHex == entity[2] \in {"x", "X"}
                num == parseInt(SubSeq(entity, IF isHex THEN 3 ELSE 2, Len(entity)),
                                IF isHex THEN 16 ELSE 10)
            IN  IF num <= MaxCodePoint THEN fromCodePoint(num) ELSE match
        ELSE IF entity \in NamedEntityNames THEN NamedEntity(entity)
        ELSE match

\* the callback of the replace: what the match "&" entity ";" becomes
EntityReplacement(entity) ==
    LET match == <<"&">> \o entity \o <<";">>
    IN  IF entity[1] = "#" THEN
            LET isHex == entity[2] \in {"x", "X"}
                num == parseInt(SubSeq(entity, IF isHex THEN 3 ELSE 2, Len(entity)),
                                IF isHex THEN 16 ELSE 10)
            IN  IF num <= MaxCodePoint THEN fromCodePoint(num) ELSE match
        ELSE IF entity \in NamedEntityNames THEN NamedEntity(entity)
        ELSE IF entity \in InheritedNames THEN InheritedText(entity)
        ELSE match

RECURSIVE decodeHtmlEntities(_)
decodeHtmlEntities(input) ==
    IF input = <<>> THEN <<>>
    ELSE IF Head(input) = "&" /\ MatchEntity(Tail(input)) # <<>> THEN
        LET entity == MatchEntity(Tail(input))
        IN  EntityReplacement(entity)
            \o decodeHtmlEntities(SubSeq(input, Len(entity) + 3, Len(input)))
    ELSE <<Head(input)>> \o decodeHtmlEntities(Tail(input))

(***************************************************************************)
(* src/auth.ts and src/secrets.ts                                          *)
(***************************************************************************)
getAuthHelpText ==
    <<"Missing access token. Use ", "gmail_get_auth_url",
      " to get an authorization URL, then ", "gmail_exchange_code",
      " to obtain tokens. Alternatively, pass accessToken or set GOOGLE_ACCESS_TOKEN in secrets.env.">>

MissingCredentialsMessage ==
    <<"Missing GOOGLE_CLIENT_ID/GOOGLE_CLIENT_SECRET. Add them to secrets.env.">>

\* getClientCredentials(): throws when either value is missing or empty
\* getClientCredentials asking for the client id only: a variant that lets a
\* missing secret pass
getClientCredentialsIdOnly(e) ==
    IF ~Truthy(e.GOOGLE_CLIENT_ID)
    THEN [threw |-> TRUE, message |-> MissingCredentialsMessage]
    ELSE [threw |-> FALSE,
          clientId |-> e.GOOGLE_CLIENT_ID.s,
          clientSecret |-> IF e.GOOGLE_CLIENT_SECRET.t = "string"
                           THEN e.GOOGLE_CLIENT_SECRET.s ELSE <<"undefined">>]

getClientCredentials(e) ==
    IF ~Truthy(e.GOOGLE_CLIENT_ID) \/ ~Truthy(e.GOOGLE_CLIENT_SECRET)
    THEN [threw |-> TRUE, message |-> MissingCredentialsMessage]
    ELSE [threw |-> FALSE,
          clientId |-> e.GOOGLE_CLIENT_ID.s,
          clientSecret |-> e.GOOGLE_CLIENT_SECRET.s]

\* getAccessToken(), as gmail.ts calls it: without the arguments of the call,
\* so that the token is the configured one (the getAccessToken(args) of
\* src/secrets.ts belongs to a revision that does not export getAuthEnvStatus)
getAccessToken(e) == e.GOOGLE_ACCESS_TOKEN

\* getAuthEnvStatus(): which of the four configured values are present
getAuthEnvStatus(e) ==
    Obj([clientId |-> Bool(Truthy(e.GOOGLE_CLIENT_ID)),
         clientSecret |-> Bool(Truthy(e.GOOGLE_CLIENT_SECRET)),
         accessToken |-> Bool(Truthy(e.GOOGLE_ACCESS_TOKEN)),
         refreshToken |-> Bool(Truthy(e.GOOGLE_REFRESH_TOKEN))])

(***************************************************************************)
(* fetchJson (src/utils.ts).  An HTTP response is its transport outcome,   *)
(* response.ok, response.status and its body; the body is empty, a text    *)
(* JSON.parse rejects, or the value JSON.parse gives.                      *)
(***************************************************************************)
\* v?.k
OptGet(v, k) == IF IsNullish(v) THEN Undefined ELSE Get(v, k)

\* String(v)
ToStr(v) ==
    CASE v.t = "string" -> v.s
      [] v.t = "number" -> IF v.finite THEN <<ToString(v.n)>> ELSE <<"NaN">>
      [] v.t = "undefined" -> <<"undefined">>
      [] v.t = "null" -> <<"null">>
      [] v.t = "array" -> <<"[array]">>
      [] OTHER -> <<"[object Object]">>

\* what a call of a function that may throw gives
Threw(message) == [threw |-> TRUE, message |-> message]

Gave(data) == [threw |-> FALSE, data |-> data]

ParseBody(body) ==
    CASE body.kind = "empty" -> Null
      [] body.kind = "text" -> Obj([raw |-> Str(body.text)])
      [] OTHER -> body.value

\* fetchJson taking error_description before error.message: a variant that
\* turns the order of the two round
fetchJsonDescriptionFirst(response) ==
    IF response.transport = "failed" THEN Threw(<<"fetch failed">>)
    ELSE LET data == ParseBody(response.body)
         IN  IF ~response.ok THEN
                 Threw(ToStr(
                     Or(Or(OptGet(data, "error_description"),
                           OptGet(OptGet(data, "error"), "message")),
                        Str(<<"Request failed with status ", ToString(response.status)>>))))
             ELSE Gave(data)

\* fetchJson failing on a body that is no JSON: a variant without the catch
\* around JSON.parse and without the test for an empty text
fetchJsonRejectingText(response) ==
    IF response.transport = "failed" THEN Threw(<<"fetch failed">>)
    ELSE IF response.body.kind # "json" THEN Threw(<<"Unexpected end of JSON input">>)
    ELSE LET data == ParseBody(response.body)
         IN  IF ~response.ok THEN
                 Threw(ToStr(
                     Or(Or(OptGet(OptGet(data, "error"), "message"),
                           OptGet(data, "error_description")),
                        Str(<<"Request failed with status ", ToString(response.status)>>))))
             ELSE Gave(data)

fetchJson(response) ==
    IF response.transport = "failed" THEN Threw(<<"fetch failed">>)
    ELSE LET data == ParseBody(response.body)
         IN  IF ~response.ok THEN
                 Threw(ToStr(
                     Or(Or(OptGet(OptGet(data, "error"), "message"),
                           OptGet(data, "error_description")),
                        Str(<<"Request failed with status ", ToString(response.status)>>))))
             ELSE Gave(data)

(***************************************************************************)
(* URLs and requests                                                       *)
(***************************************************************************)
HexUpper ==
    <<"0", "1", "2", "3", "4", "5", "6", "7", "8", "9", "A", "B", "C", "D", "E", "F">>

UriUnreserved ==
    Letters \cup Digits \cup {"-", "_", ".", "!", "~", "*", "'", "(", ")"}

\* a lone surrogate, which a JSON string may carry
LoneSurrogate == "U+D800"

\* encodeURIComponent(s): throws URIError on a lone surrogate
RECURSIVE PercentEncode(_)
PercentEncode(s) ==
    IF s = <<>> THEN <<>>
    ELSE IF Head(s) \in UriUnreserved THEN <<Head(s)>> \o PercentEncode(Tail(s))
    ELSE <<"%", HexUpper[(CharCode(Head(s)) \div 16) + 1],
           HexUpper[(CharCode(Head(s)) % 16) + 1]>> \o PercentEncode(Tail(s))

encodeURIComponent(s) ==
    IF \E i \in 1..Len(s) : s[i] = LoneSurrogate
    THEN Threw(<<"URI malformed">>)
    ELSE Gave(PercentEncode(s))

\* lines.join(sep)
RECURSIVE Join(_, _)
Join(parts, sep) ==
    IF parts = <<>> THEN <<>>
    ELSE IF Len(parts) = 1 THEN parts[1]
    ELSE parts[1] \o sep \o Join(Tail(parts), sep)

IsString(v) == v.t = "string"

GmailBase == "https://gmail.googleapis.com/gmail/v1/users/"

TokenEndpoint == "https://oauth2.googleapis.com/token"

AuthEndpoint == "https://accounts.google.com/o/oauth2/v2/auth"

\* a URL: its text before the query, and its searchParams in order
Url(href, searchParams) == [href |-> href, searchParams |-> searchParams]

Bearer(accessToken) == <<"Bearer ">> \o accessToken

(***************************************************************************)
(* src/gmail.ts: the result envelopes                                      *)
(***************************************************************************)
\* The text of a result is a template string of the code, the serialisation
\* of a URL, or a JSON text.
TemplateText(pieces) == [plain |-> pieces]

\* the value a JSON text denotes: JSON.stringify leaves out the properties
\* whose value is undefined, and writes null for undefined elements and NaN
RECURSIVE JsonValue(_)
JsonValue(v) ==
    CASE v.t = "object" ->
             Obj([k \in {j \in DOMAIN v.o : v.o[j].t # "undefined"} |-> JsonValue(v.o[k])])
      [] v.t = "array" ->
             Arr([i \in 1..Len(v.a) |->
                     IF v.a[i].t = "undefined" THEN Null ELSE JsonValue(v.a[i])])
      [] v.t = "number" /\ ~v.finite -> Null
      [] OTHER -> v

\* JSON.stringify(v): the text is the serialisation of v
JSONstringify(v) == [json |-> JsonValue(v)]

TextResult(text) == [content |-> <<[type |-> "text", text |-> text]>>]

\* errorResult with the message itself for the text: a variant that does
\* not serialise the failure
errorResultPlainMessage(message, details) == TextResult(TemplateText(message))

errorResult(message, details) ==
    TextResult(JSONstringify(Obj([error |-> Str(message), details |-> details])))

\* what the request handler hands to its caller
Returned(r) == [outcome |-> "returned", value |-> r]

Raised(message) == [outcome |-> "raised", message |-> message]

NoResult == [outcome |-> "none"]

(***************************************************************************)
(* A handler runs until it returns, throws, or awaits an HTTP response.    *)
(***************************************************************************)
Return(r) == [kind |-> "return", result |-> Returned(r)]

Throw(message) == [kind |-> "throw", result |-> Raised(message)]

Await(requests, fr, at) ==
    [kind |-> "await", requests |-> requests, frame |-> fr, pc |-> at]

NoFrame == [none |-> TRUE]

(***************************************************************************)
(* src/gmail.ts: the helpers of handleGmailTool                            *)
(***************************************************************************)
isGmailPart(value) == value.t \in {"object", "array"}

TextPlain == Str(<<"text/plain">>)

\* the loop taking the data of a part of any type: a variant that does not
\* ask for text/plain
RECURSIVE extractFromQueueAnyType(_)
extractFromQueueAnyType(queue) ==
    IF queue = <<>> THEN Null
    ELSE LET part == Head(queue)
         IN  IF ~isGmailPart(part) THEN extractFromQueueAnyType(Tail(queue))
             ELSE IF Truthy(OptGet(Get(part, "body"), "data"))
             THEN Str(decodeHtmlEntities(base64UrlDecode(Get(Get(part, "body"), "data").s)))
             ELSE extractFromQueueAnyType(
                      Tail(queue)
                      \o (IF Get(part, "parts").t = "array"
                          THEN Get(part, "parts").a ELSE <<>>))

\* the loop going into a part before its siblings: a variant that puts the
\* parts of a part at the front of the queue
RECURSIVE extractFromQueueDepthFirst(_)
extractFromQueueDepthFirst(queue) ==
    IF queue = <<>> THEN Null
    ELSE LET part == Head(queue)
         IN  IF ~isGmailPart(part) THEN extractFromQueueDepthFirst(Tail(queue))
             ELSE IF Get(part, "mimeType") = TextPlain
                     /\ Truthy(OptGet(Get(part, "body"), "data"))
             THEN Str(decodeHtmlEntities(base64UrlDecode(Get(Get(part, "body"), "data").s)))
             ELSE extractFromQueueDepthFirst(
                      (IF Get(part, "parts").t = "array"
                       THEN Get(part, "parts").a ELSE <<>>)
                      \o Tail(queue))

\* the while loop of extractPlainText over its queue
RECURSIVE extractFromQueue(_)
extractFromQueue(queue) ==
    IF queue = <<>> THEN Null
    ELSE LET part == Head(queue)
         IN  IF ~isGmailPart(part) THEN extractFromQueue(Tail(queue))
             ELSE IF Get(part, "mimeType") = TextPlain
                     /\ Truthy(OptGet(Get(part, "body"), "data"))
             THEN Str(decodeHtmlEntities(base64UrlDecode(Get(Get(part, "body"), "data").s)))
             ELSE extractFromQueue(
                      Tail(queue)
                      \o (IF Get(part, "parts").t = "array"
                          THEN Get(part, "parts").a ELSE <<>>))

\* the parts the while loop takes from its queue with shift(), in order
RECURSIVE extractDequeues(_)
extractDequeues(queue) ==
    IF queue = <<>> THEN <<>>
    ELSE LET part == Head(queue)
         IN  <<part>>
             \o (IF ~isGmailPart(part) THEN extractDequeues(Tail(queue))
                 ELSE IF Get(part, "mimeType") = TextPlain
                         /\ Truthy(OptGet(Get(part, "body"), "data"))
                 THEN <<>>
                 ELSE extractDequeues(
                          Tail(queue)
                          \o (IF Get(part, "parts").t = "array"
                              THEN Get(part, "parts").a ELSE <<>>)))

\* extractPlainText looking at the parts first: a variant that takes the data
\* of the root only when no part has plain text
extractPlainTextPartsFirst(payload) ==
    IF ~Truthy(payload) \/ ~isGmailPart(payload) THEN Null
    ELSE LET found == extractFromQueue(IF Get(payload, "parts").t = "array"
                                       THEN Get(payload, "parts").a ELSE <<>>)
         IN  IF found # Null THEN found
             ELSE IF Truthy(OptGet(Get(payload, "body"), "data"))
             THEN Str(decodeHtmlEntities(base64UrlDecode(Get(Get(payload, "body"), "data").s)))
             ELSE Null

extractPlainText(payload) ==
    IF ~Truthy(payload) \/ ~isGmailPart(payload) THEN Null
    ELSE IF Truthy(OptGet(Get(payload, "body"), "data"))
    THEN Str(decodeHtmlEntities(base64UrlDecode(Get(Get(payload, "body"), "data").s)))
    ELSE extractFromQueue(
             IF Get(payload, "parts").t = "array" THEN Get(payload, "parts").a ELSE <<>>)

\* headers.find(...): the first header whose name matches, case-insensitively
RECURSIVE FindHeader(_, _)
FindHeader(headers, headerName) ==
    IF headers = <<>> THEN Undefined
    ELSE IF OptGet(Head(headers), "name").t = "string"
            /\ toLowerCase(OptGet(Head(headers), "name").s) = toLowerCase(headerName)
    THEN Head(headers)
    ELSE FindHeader(Tail(headers), headerName)

getHeaderValue(payload, headerName) ==
    LET headers == OptGet(payload, "headers")
    IN  IF headers.t # "array" THEN Undefined
        ELSE OptGet(FindHeader(headers.a, headerName), "value")

ToPrefix == <<"T", "o", ":", " ">>

ContentTypeLine ==
    <<"C", "o", "n", "t", "e", "n", "t", "-", "T", "y", "p", "e", ":", " ",
      "t", "e", "x", "t", "/", "p", "l", "a", "i", "n", ";", " ", "c", "h",
      "a", "r", "s", "e", "t", "=", "u", "t", "f", "-", "8">>

MimeVersionLine ==
    <<"M", "I", "M", "E", "-", "V", "e", "r", "s", "i", "o", "n", ":", " ",
      "1", ".", "0">>

SubjectPrefix == <<"S", "u", "b", "j", "e", "c", "t", ":", " ">>

InReplyToPrefix ==
    <<"I", "n", "-", "R", "e", "p", "l", "y", "-", "T", "o", ":", " ">>

ReferencesPrefix ==
    <<"R", "e", "f", "e", "r", "e", "n", "c", "e", "s", ":", " ">>

CRLF == <<"\r", "\n">>

\* the lines of buildReplyMime, before the join
\* replyMimeLines with References before In-Reply-To: a variant that swaps the
\* two optional lines
replyMimeLinesReferencesFirst(headers) ==
    <<ToPrefix \o headers.to.s, ContentTypeLine, MimeVersionLine,
      SubjectPrefix \o headers.subject.s>>
    \o (IF Truthy(Get(Obj(headers), "references"))
        THEN <<ReferencesPrefix \o headers.references.s>> ELSE <<>>)
    \o (IF Truthy(Get(Obj(headers), "inReplyTo"))
        THEN <<InReplyToPrefix \o headers.inReplyTo.s>> ELSE <<>>)
    \o <<<<>>, headers.body.s>>

replyMimeLines(headers) ==
    <<ToPrefix \o headers.to.s, ContentTypeLine, MimeVersionLine,
      SubjectPrefix \o headers.subject.s>>
    \o (IF Truthy(Get(Obj(headers), "inReplyTo"))
        THEN <<InReplyToPrefix \o headers.inReplyTo.s>> ELSE <<>>)
    \o (IF Truthy(Get(Obj(headers), "references"))
        THEN <<ReferencesPrefix \o headers.references.s>> ELSE <<>>)
    \o <<<<>>, headers.body.s>>

buildReplyMime(headers) == Join(replyMimeLines(headers), CRLF)

(***************************************************************************)
(* src/gmail.ts: gmail_get_auth_url                                        *)
(***************************************************************************)
DefaultScope == <<"https://www.googleapis.com/auth/gmail.readonly">>

Online == <<"o", "n", "l", "i", "n", "e">>

Offline == <<"o", "f", "f", "l", "i", "n", "e">>

PromptValues ==
    {<<"c", "o", "n", "s", "e", "n", "t">>, <<"n", "o", "n", "e">>,
     <<"s", "e", "l", "e", "c", "t", "_", "a", "c", "c", "o", "u", "n", "t">>}

\* url.toString(): the text is the serialisation of the URL
URLtoString(u) == [url |-> u]

\* GetAuthUrl with online access unless offline is asked for: a variant that
\* turns the default of access_type round
GetAuthUrlOnlineByDefault(args, e, envStatus) ==
    LET redirectUri == Or(e.GOOGLE_REDIRECT_URI, getString(Get(args, "redirectUri")))
        creds == getClientCredentials(e)
        scopes == IF Get(args, "scope").t = "array"
                  THEN SelectSeq(Get(args, "scope").a, IsString) ELSE <<>>
        accessType == IF getString(Get(args, "accessType")) = Str(Offline)
                      THEN Offline ELSE Online
        prompt == getString(Get(args, "prompt"))
    IN  IF ~Truthy(redirectUri) THEN
            Return(errorResult(
                <<"Missing redirectUri. Pass redirectUri or set GOOGLE_REDIRECT_URI in secrets.env.">>,
                envStatus))
        ELSE IF creds.threw THEN Return(errorResult(creds.message, envStatus))
        ELSE Return(TextResult(URLtoString(Url(
                 <<AuthEndpoint>>,
                 <<<<"client_id", creds.clientId>>,
                   <<"redirect_uri", redirectUri.s>>,
                   <<"response_type", <<"code">>>>,
                   <<"scope", IF Len(scopes) > 0
                              THEN Join([i \in 1..Len(scopes) |-> scopes[i].s], <<" ">>)
                              ELSE DefaultScope>>,
                   <<"access_type", accessType>>>>
                 \o (IF prompt.t = "string" /\ prompt.s \in PromptValues
                     THEN <<<<"prompt", prompt.s>>>> ELSE <<>>)))))

GetAuthUrl(args, e, envStatus) ==
    LET redirectUri == Or(e.GOOGLE_REDIRECT_URI, getString(Get(args, "redirectUri")))
        creds == getClientCredentials(e)
        scopes == IF Get(args, "scope").t = "array"
                  THEN SelectSeq(Get(args, "scope").a, IsString) ELSE <<>>
        accessType == IF getString(Get(args, "accessType")) = Str(Online)
                      THEN Online ELSE Offline
        prompt == getString(Get(args, "prompt"))
    IN  IF ~Truthy(redirectUri) THEN
            Return(errorResult(
                <<"Missing redirectUri. Pass redirectUri or set GOOGLE_REDIRECT_URI in secrets.env.">>,
                envStatus))
        ELSE IF creds.threw THEN Return(errorResult(creds.message, envStatus))
        ELSE Return(TextResult(URLtoString(Url(
                 <<AuthEndpoint>>,
                 <<<<"client_id", creds.clientId>>,
                   <<"redirect_uri", redirectUri.s>>,
                   <<"response_type", <<"code">>>>,
                   <<"scope", IF Len(scopes) > 0
                              THEN Join([i \in 1..Len(scopes) |-> scopes[i].s], <<" ">>)
                              ELSE DefaultScope>>,
                   <<"access_type", accessType>>>>
                 \o (IF prompt.t = "string" /\ prompt.s \in PromptValues
                     THEN <<<<"prompt", prompt.s>>>> ELSE <<>>)))))

(***************************************************************************)
(* src/gmail.ts: gmail_exchange_code and gmail_refresh_access_token        *)
(***************************************************************************)
FormHeaders == [ContentType |-> "application/x-www-form-urlencoded"]

ExchangeCode(args, e, envStatus) ==
    LET code == getString(Get(args, "code"))
        redirectUri == getString(Get(args, "redirectUri"))
        creds == getClientCredentials(e)
    IN  IF ~Truthy(code) \/ ~Truthy(redirectUri) THEN
            Return(errorResult(<<"Missing code or redirectUri.">>, envStatus))
        ELSE IF creds.threw THEN Return(errorResult(creds.message, envStatus))
        ELSE Await(
                 <<[step |-> "token", method |-> "POST",
                    url |-> Url(<<TokenEndpoint>>, <<>>),
                    headers |-> FormHeaders,
                    body |-> [code |-> code.s,
                              client_id |-> creds.clientId,
                              client_secret |-> creds.clientSecret,
                              redirect_uri |-> redirectUri.s,
                              grant_type |-> "authorization_code"]]>>,
                 [envStatus |-> envStatus],
                 "await_exchange")

\* after the await of fetchJson, in its try
ExchangeCodeAfterFetch(fr, fetched) ==
    IF fetched.threw THEN Return(errorResult(fetched.message, fr.envStatus))
    ELSE Return(TextResult(JSONstringify(fetched.data)))

RefreshAccessToken(args, e, envStatus) ==
    LET refreshToken == Or(getString(Get(args, "refreshToken")), e.GOOGLE_REFRESH_TOKEN)
        creds == getClientCredentials(e)
    IN  IF ~Truthy(refreshToken) THEN
            Return(errorResult(
                <<"Missing refresh token. Set GOOGLE_REFRESH_TOKEN or pass refreshToken.">>,
                envStatus))
        ELSE IF creds.threw THEN Return(errorResult(creds.message, envStatus))
        ELSE Await(
                 <<[step |-> "token", method |-> "POST",
                    url |-> Url(<<TokenEndpoint>>, <<>>),
                    headers |-> FormHeaders,
                    body |-> [refresh_token |-> refreshToken.s,
                              client_id |-> creds.clientId,
                              client_secret |-> creds.clientSecret,
                              grant_type |-> "refresh_token"]]>>,
                 [envStatus |-> envStatus],
                 "await_refresh")

RefreshAccessTokenAfterFetch(fr, fetched) ==
    IF fetched.threw THEN Return(errorResult(fetched.message, fr.envStatus))
    ELSE Return(TextResult(JSONstringify(fetched.data)))

(***************************************************************************)
(* src/gmail.ts: get_unread_emails                                         *)
(***************************************************************************)
Me == <<"m", "e">>

DefaultMaxResults == 10

\* rec with rec[key] = value added when cond holds
With(rec, key, value, cond) == IF cond THEN rec @@ (key :> value) ELSE rec

ListRequest(encodedUserId, maxResults, accessToken) ==
    [step |-> <<"list", 0>>, method |-> "GET",
     url |-> Url(<<GmailBase>> \o encodedUserId \o <<"/messages">>,
                 <<<<"q", <<"is:unread">>>>, <<"maxResults", ToStr(maxResults)>>>>),
     headers |-> [Authorization |-> Bearer(accessToken)]]

DetailRequest(k, encodedUserId, encodedId, accessToken) ==
    [step |-> <<"detail", k>>, method |-> "GET",
     url |-> Url(<<GmailBase>> \o encodedUserId \o <<"/messages/">> \o encodedId,
                 <<<<"format", <<"full">>>>>>),
     headers |-> [Authorization |-> Bearer(accessToken)]]

\* UnreadMaxResults with || in place of ??: a variant that takes 0 for absent
UnreadMaxResultsOrDefault(args) ==
    Or(getNumber(Get(args, "maxResults")), Num(DefaultMaxResults))

\* maxResults of the list request
UnreadMaxResults(args) ==
    Coalesce(getNumber(Get(args, "maxResults")), Num(DefaultMaxResults))

\* UnreadStart without the check of the access token: a variant that sends the
\* list request whatever the token is
UnreadStartWithoutTokenCheck(args, e, envStatus) ==
    LET userId == Or(getString(Get(args, "userId")), Str(Me))
        encoded == encodeURIComponent(userId.s)
    IN  IF encoded.threw THEN Throw(encoded.message)
        ELSE Await(<<ListRequest(encoded.data, UnreadMaxResults(args),
                                 ToStr(getAccessToken(e)))>>,
                   [envStatus |-> envStatus, accessToken |-> ToStr(getAccessToken(e)),
                    userId |-> userId.s],
                   "await_list")

\* get_unread_emails up to its first await
UnreadStart(args, e, envStatus) ==
    LET accessToken == getAccessToken(e)
        userId == Or(getString(Get(args, "userId")), Str(Me))
        maxResults == UnreadMaxResults(args)
        encoded == encodeURIComponent(userId.s)
    IN  IF ~Truthy(accessToken) THEN Return(errorResult(getAuthHelpText, envStatus))
        ELSE IF encoded.threw THEN Throw(encoded.message)
        ELSE Await(<<ListRequest(encoded.data, maxResults, accessToken.s)>>,
                   [envStatus |-> envStatus, accessToken |-> accessToken.s,
                    userId |-> userId.s],
                   "await_list")

\* UnreadCatch handing back what was fetched so far: a variant that reports a
\* partial list next to the error
UnreadCatchKeepingResults(fr, message) ==
    Return(TextResult(JSONstringify(
        Obj([error |-> Str(message),
             messages |-> Arr(IF "results" \in DOMAIN fr THEN fr.results ELSE <<>>)]))))

\* the catch of get_unread_emails
UnreadCatch(fr, message) == Return(errorResult(message, fr.envStatus))

\* UnreadLoop issuing the requests of all remaining messages at once: a
\* variant that fans out instead of awaiting each fetch
UnreadLoopAllAtOnce(fr) ==
    IF fr.messages.t # "array" THEN Return(errorResult(<<"messages is not iterable">>, fr.envStatus))
    ELSE IF fr.k > Len(fr.messages.a) THEN
        Return(TextResult(JSONstringify(Obj([messages |-> Arr(fr.results)]))))
    ELSE Await([i \in 1..(Len(fr.messages.a) - fr.k + 1) |->
                   DetailRequest(fr.k + i - 1, PercentEncode(fr.userId),
                                 PercentEncode(ToStr(OptGet(fr.messages.a[fr.k + i - 1], "id"))),
                                 fr.accessToken)],
               fr, "await_detail")

\* the for loop of get_unread_emails at the start of iteration fr.k, and the
\* return after the loop
UnreadLoop(fr) ==
    IF fr.messages.t # "array" THEN UnreadCatch(fr, <<"messages is not iterable">>)
    ELSE IF fr.k > Len(fr.messages.a) THEN
        Return(TextResult(JSONstringify(Obj([messages |-> Arr(fr.results)]))))
    ELSE LET message == fr.messages.a[fr.k]
             encodedUserId == encodeURIComponent(fr.userId)
             encodedId == encodeURIComponent(ToStr(OptGet(message, "id")))
         IN  IF IsNullish(message) THEN
                 UnreadCatch(fr, <<"Cannot read properties of ", message.t, " (reading 'id')">>)
             ELSE IF encodedUserId.threw THEN UnreadCatch(fr, encodedUserId.message)
             ELSE IF encodedId.threw THEN UnreadCatch(fr, encodedId.message)
             ELSE Await(<<DetailRequest(fr.k, encodedUserId.data, encodedId.data,
                                        fr.accessToken)>>,
                        fr, "await_detail")

\* after the await of the list request
UnreadAfterList(fr, fetched) ==
    IF fetched.threw THEN UnreadCatch(fr, fetched.message)
    ELSE UnreadLoop([envStatus |-> fr.envStatus, accessToken |-> fr.accessToken,
                     userId |-> fr.userId,
                     messages |-> Or(OptGet(fetched.data, "messages"), Arr(<<>>)),
                     results |-> <<>>, k |-> 1])

From == <<"F", "r", "o", "m">>

Subject == <<"S", "u", "b", "j", "e", "c", "t">>

\* the entry results.push() adds for one message
UnreadEntry(messageData) ==
    LET payload == Get(messageData, "payload")
    IN  Obj([id |-> Get(messageData, "id"),
             threadId |-> Get(messageData, "threadId"),
             from |-> getHeaderValue(payload, From),
             subject |-> getHeaderValue(payload, Subject),
             snippet |-> Get(messageData, "snippet"),
             text |-> extractPlainText(payload)])

\* UnreadAfterDetail trying a failed fetch again: a variant that retries
UnreadAfterDetailRetrying(fr, fetched) ==
    IF fetched.threw \/ IsNullish(fetched.data) THEN UnreadLoop(fr)
    ELSE UnreadLoop([fr EXCEPT !.results = Append(@, UnreadEntry(fetched.data)),
                               !.k = @ + 1])

\* after the await of the detail request of iteration fr.k
UnreadAfterDetail(fr, fetched) ==
    IF fetched.threw THEN UnreadCatch(fr, fetched.message)
    ELSE IF IsNullish(fetched.data) THEN
        UnreadCatch(fr, <<"Cannot read properties of null (reading 'payload')">>)
    ELSE UnreadLoop([fr EXCEPT !.results = Append(@, UnreadEntry(fetched.data)),
                               !.k = @ + 1])

(***************************************************************************)
(* src/gmail.ts: create_draft_reply                                        *)
(***************************************************************************)
ReplyTo == <<"R", "e", "p", "l", "y", "-", "T", "o">>

MessageID == <<"M", "e", "s", "s", "a", "g", "e", "-", "I", "D">>

References == <<"R", "e", "f", "e", "r", "e", "n", "c", "e", "s">>

RePrefix == <<"R", "e", ":", " ">>

MetadataHeaders == <<"From,Reply-To,Subject,Message-ID,References">>

\* s.startsWith(prefix)
startsWith(s, prefix) ==
    Len(s) >= Len(prefix) /\ SubSeq(s, 1, Len(prefix)) = prefix

\* replyRecipient asking for From first: a variant that answers the sender
\* even when the original names a Reply-To
replyRecipientFromFirst(payload) ==
    Or(getHeaderValue(payload, From), getHeaderValue(payload, ReplyTo))

\* replyTo: Reply-To, else From
replyRecipient(payload) ==
    Or(getHeaderValue(payload, ReplyTo), getHeaderValue(payload, From))

\* replySubject comparing the prefix as written: a variant that takes only
\* "re:" in lower case for a reply prefix
replySubjectCaseSensitive(payload) ==
    LET originalSubject == Or(getHeaderValue(payload, Subject), Str(<<>>))
    IN  IF startsWith(originalSubject.s, <<"r", "e", ":">>)
        THEN originalSubject
        ELSE Str(Trim(RePrefix \o originalSubject.s))

\* subject, from the original Subject header
replySubject(payload) ==
    LET originalSubject == Or(getHeaderValue(payload, Subject), Str(<<>>))
    IN  IF startsWith(toLowerCase(originalSubject.s), <<"r", "e", ":">>)
        THEN originalSubject
        ELSE Str(Trim(RePrefix \o originalSubject.s))

\* combinedReferences without the original References: a variant that starts
\* the chain anew at the Message-ID
combinedReferencesMessageIdOnly(references, messageIdHeader) ==
    IF Truthy(messageIdHeader) THEN messageIdHeader ELSE references

\* [references, messageIdHeader].filter(Boolean).join(" ")
combinedReferences(references, messageIdHeader) ==
    IF Truthy(messageIdHeader)
    THEN Str(Join([i \in 1..Len(SelectSeq(<<references, messageIdHeader>>, Truthy))
                      |-> SelectSeq(<<references, messageIdHeader>>, Truthy)[i].s],
                  <<" ">>))
    ELSE references

\* replyHeaders, as handed to buildReplyMime
replyHeaders(payload, body) ==
    LET messageIdHeader == getHeaderValue(payload, MessageID)
        references == getHeaderValue(payload, References)
        combined == combinedReferences(references, messageIdHeader)
    IN  With(With([to |-> replyRecipient(payload),
                   subject |-> replySubject(payload),
                   body |-> Str(body)],
                  "inReplyTo", messageIdHeader, Truthy(messageIdHeader)),
             "references", combined, Truthy(combined))

\* draftPayload without the thread: a variant that leaves threadId out
draftPayloadWithoutThread(originalData, mime) ==
    Obj([message |-> Obj([raw |-> Str(base64UrlEncode(mime))])])

\* draftPayload
draftPayload(originalData, mime) ==
    Obj([message |->
            Obj(With([raw |-> Str(base64UrlEncode(mime))],
                     "threadId", Get(originalData, "threadId"),
                     Truthy(Get(originalData, "threadId"))))])

OriginalRequest(encodedUserId, encodedId, accessToken) ==
    [step |-> <<"original", 0>>, method |-> "GET",
     url |-> Url(<<GmailBase>> \o encodedUserId \o <<"/messages/">> \o encodedId,
                 <<<<"format", <<"metadata">>>>, <<"metadataHeaders", MetadataHeaders>>>>),
     headers |-> [Authorization |-> Bearer(accessToken)]]

DraftRequest(encodedUserId, accessToken, payload) ==
    [step |-> <<"draft", 0>>, method |-> "POST",
     url |-> Url(<<GmailBase>> \o encodedUserId \o <<"/drafts">>, <<>>),
     headers |-> [Authorization |-> Bearer(accessToken),
                  ContentType |-> "application/json"],
     body |-> JSONstringify(payload)]

\* the catch of create_draft_reply
DraftCatch(fr, message) == Return(errorResult(message, fr.envStatus))

\* DraftStart checking only messageId before the request: a variant that
\* lets a call without body reach the network
DraftStartValidatingLate(args, e, envStatus) ==
    LET accessToken == getAccessToken(e)
        userId == Or(getString(Get(args, "userId")), Str(Me))
        messageId == getString(Get(args, "messageId"))
        encodedUserId == encodeURIComponent(userId.s)
    IN  IF ~Truthy(accessToken) THEN Return(errorResult(getAuthHelpText, envStatus))
        ELSE IF ~Truthy(messageId) THEN
            Return(errorResult(<<"Missing required fields: messageId, body.">>, envStatus))
        ELSE IF encodedUserId.threw THEN
            Return(errorResult(encodedUserId.message, envStatus))
        ELSE Await(<<OriginalRequest(encodedUserId.data, PercentEncode(messageId.s),
                                     accessToken.s)>>,
                   [envStatus |-> envStatus, accessToken |-> accessToken.s,
                    userId |-> userId.s, body |-> ToStr(getString(Get(args, "body")))],
                   "await_original")

\* create_draft_reply up to its first await
DraftStart(args, e, envStatus) ==
    LET accessToken == getAccessToken(e)
        userId == Or(getString(Get(args, "userId")), Str(Me))
        body == getString(Get(args, "body"))
        messageId == getString(Get(args, "messageId"))
        encodedUserId == encodeURIComponent(userId.s)
        encodedId == encodeURIComponent(messageId.s)
    IN  IF ~Truthy(accessToken) THEN Return(errorResult(getAuthHelpText, envStatus))
        ELSE IF ~Truthy(messageId) \/ ~Truthy(body) THEN
            Return(errorResult(<<"Missing required fields: messageId, body.">>, envStatus))
        ELSE IF encodedUserId.threw THEN
            Return(errorResult(encodedUserId.message, envStatus))
        ELSE IF encodedId.threw THEN Return(errorResult(encodedId.message, envStatus))
        ELSE Await(<<OriginalRequest(encodedUserId.data, encodedId.data, accessToken.s)>>,
                   [envStatus |-> envStatus, accessToken |-> accessToken.s,
                    userId |-> userId.s, body |-> body.s],
                   "await_original")

\* after the await of the original message, up to the await of the draft
DraftAfterOriginal(fr, fetched) ==
    IF fetched.threw THEN DraftCatch(fr, fetched.message)
    ELSE IF IsNullish(fetched.data) THEN
        DraftCatch(fr, <<"Cannot read properties of null (reading 'payload')">>)
    ELSE LET payload == Get(fetched.data, "payload")
             encodedUserId == encodeURIComponent(fr.userId)
         IN  IF ~Truthy(replyRecipient(payload)) THEN
                 Return(errorResult(<<"Could not determine reply recipient.">>, fr.envStatus))
             ELSE IF encodedUserId.threw THEN DraftCatch(fr, encodedUserId.message)
             ELSE Await(
                      <<DraftRequest(
                            encodedUserId.data, fr.accessToken,
                            draftPayload(fetched.data,
                                         buildReplyMime(replyHeaders(payload, fr.body))))>>,
                      fr, "await_draft")

\* after the await of the draft request
DraftAfterPost(fr, fetched) ==
    IF fetched.threw THEN DraftCatch(fr, fetched.message)
    ELSE Return(TextResult(JSONstringify(fetched.data)))

(***************************************************************************)
(* The dispatch: handleGmailTool (src/gmail.ts) and the CallTool request   *)
(* handler (src/index.ts), up to the first await of the tool.              *)
(***************************************************************************)
\* handleGmailTool returned null
NoTool == [kind |-> "null"]

\* handleGmailTool with the configured values as its status: a variant whose
\* details carry the values where the handler reports their presence
handleGmailToolStatusOfValues(name, args, e) ==
    LET envStatus == Obj([clientId |-> e.GOOGLE_CLIENT_ID,
                          clientSecret |-> e.GOOGLE_CLIENT_SECRET,
                          accessToken |-> e.GOOGLE_ACCESS_TOKEN,
                          refreshToken |-> e.GOOGLE_REFRESH_TOKEN])
    IN  CASE name = "gmail_get_auth_url" -> GetAuthUrl(args, e, envStatus)
          [] name = "gmail_exchange_code" -> ExchangeCode(args, e, envStatus)
          [] name = "gmail_refresh_access_token" -> RefreshAccessToken(args, e, envStatus)
          [] name = "get_unread_emails" -> UnreadStart(args, e, envStatus)
          [] name = "create_draft_reply" -> DraftStart(args, e, envStatus)
          [] OTHER -> NoTool

handleGmailTool(name, args, e) ==
    LET envStatus == getAuthEnvStatus(e)
    IN  CASE name = "gmail_get_auth_url" -> GetAuthUrl(args, e, envStatus)
          [] name = "gmail_exchange_code" -> ExchangeCode(args, e, envStatus)
          [] name = "gmail_refresh_access_token" -> RefreshAccessToken(args, e, envStatus)
          [] name = "get_unread_emails" -> UnreadStart(args, e, envStatus)
          [] name = "create_draft_reply" -> DraftStart(args, e, envStatus)
          [] OTHER -> NoTool

\* UnknownTool answering with an error envelope: a variant that returns
\* where the handler throws
UnknownToolReturned(name) == Return(errorResult(<<"Unknown tool: ", name>>, Undefined))

\* the outcome of the request handler for a name no tool has
UnknownTool(name) == Throw(<<"Unknown tool: ", name>>)

CallToolHandler(name, arguments, e, now) ==
    IF name = "get_time" THEN
        Return(TextResult(TemplateText(
            <<"Current time: ", now, " and the secret word is \"Cryptic\"">>)))
    ELSE LET gmailResult == handleGmailTool(name, Coalesce(arguments, Obj(<<>>)), e)
         IN  IF gmailResult.kind = "null" THEN UnknownTool(name) ELSE gmailResult

(***************************************************************************)
(* The inputs: the environment, the requests and the remote's responses.   *)
(***************************************************************************)
\* the configurations of process.env; the two values no handler reads
\* together, the refresh token and the redirect URI, are set or unset
\* together; and two configurations with an empty client id or secret
Envs ==
    {e \in [GOOGLE_CLIENT_ID : {Undefined, Str(<<"i", "d">>)},
            GOOGLE_CLIENT_SECRET : {Undefined, Str(<<"s", "e", "c">>)},
            GOOGLE_ACCESS_TOKEN : {Undefined, Str(<<>>), Str(<<"t", "o", "k">>)},
            GOOGLE_REFRESH_TOKEN : {Undefined, Str(<<"r", "t">>)},
            GOOGLE_REDIRECT_URI : {Undefined, Str(<<"h", ":", "/", "/", "e">>)}] :
        Truthy(e.GOOGLE_REFRESH_TOKEN) <=> Truthy(e.GOOGLE_REDIRECT_URI)}
    \cup {[GOOGLE_CLIENT_ID |-> i, GOOGLE_CLIENT_SECRET |-> c,
           GOOGLE_ACCESS_TOKEN |-> Undefined,
           GOOGLE_REFRESH_TOKEN |-> Str(<<"r", "t">>),
           GOOGLE_REDIRECT_URI |-> Str(<<"h", ":", "/", "/", "e">>)]
          : <<i, c>> \in {<<Str(<<>>), Str(<<"s", "e", "c">>)>>,
                          <<Str(<<"i", "d">>), Str(<<>>)>>}}

\* gmailTools advertising the unread tool under a name the dispatcher does
\* not know: a variant in which catalog and dispatcher disagree
gmailToolsRenamed ==
    <<"gmail_get_unread", "gmail_get_auth_url", "gmail_exchange_code",
      "gmail_refresh_access_token", "create_draft_reply">>

\* the names of gmailTools, in the order of the array
gmailTools ==
    <<"get_unread_emails", "gmail_get_auth_url", "gmail_exchange_code",
      "gmail_refresh_access_token", "create_draft_reply">>

\* the names of the catalog as the module builds it
toolsAtStartup == <<"get_time">> \o gmailTools

\* no ListTools request answered yet
NotListed == [none |-> TRUE]

ToolNames ==
    {"get_time", "get_unread_emails", "gmail_get_auth_url", "gmail_exchange_code",
     "gmail_refresh_access_token", "create_draft_reply"}

UnknownNames == {"unknown_tool", "gmail_get_unread"}

Clock == {"2026-01-01T00:00:00.000Z", "2026-01-01T00:00:01.000Z"}

\* a new Date() that is not read
NoClock == ""

\* request.params.arguments of a tool without parameters
NoArguments == {Undefined, Obj(<<>>)}

\* argument values for a string parameter: absent, not a string, blank, blank
\* once sanitised, and one that getString trims and strips
StringArgs ==
    {Undefined, Num(7), Str(<<" ">>), Str(<<"\\">>), Str(<<" ", "a", "\\">>)}

UserIdArgs == {Undefined, Str(<<"a", "@", "b", " ">>), Str(<<LoneSurrogate>>)}

MaxResultsArgs == {Undefined, Num(0), Num(3), NaN}

AccessTokenArgs == {Undefined, Str(<<"a", "r", "g">>)}

AuthUrlArguments ==
    {Obj(o) : o \in
        [redirectUri : {Undefined, Str(<<" ">>), Str(<<"h", ":", "/", "/", "a", "\\">>)},
         scope : {Undefined, Str(<<"s">>), Arr(<<Num(1)>>),
                  Arr(<<Str(<<"s", "1">>), Num(1), Str(<<"s", "2">>)>>)},
         accessType : {Undefined, Str(Online), Str(<<" ">> \o Online), Str(<<"x">>)},
         prompt : {Undefined, Str(<<"n", "o", "n", "e">>), Str(<<"x">>)}]}

ExchangeCodeArguments ==
    {Obj(o) : o \in [code : StringArgs, redirectUri : StringArgs]}

RefreshArguments ==
    {Undefined} \cup {Obj(o) : o \in [refreshToken : StringArgs]}

UnreadArguments ==
    {Obj(o) : o \in
        [userId : UserIdArgs, maxResults : MaxResultsArgs, accessToken : AccessTokenArgs]}

DraftArguments ==
    {Obj(o) : o \in
        [userId : UserIdArgs, messageId : StringArgs, body : StringArgs]}

EmptyBody == [kind |-> "empty"]

TextBody(text) == [kind |-> "text", text |-> text]

JsonBody(value) == [kind |-> "json", value |-> value]

Http(ok, status, body) ==
    [transport |-> "ok", ok |-> ok, status |-> status, body |-> body]

\* fetch() rejected: no response at all
TransportFailure ==
    [transport |-> "failed", ok |-> FALSE, status |-> 0, body |-> EmptyBody]

FailureResponses ==
    {TransportFailure,
     Http(FALSE, 401,
          JsonBody(Obj([error |-> Obj([message |-> Str(<<"Invalid Credentials">>)])]))),
     Http(FALSE, 400,
          JsonBody(Obj([error |-> Str(<<"invalid_grant">>),
                        error_description |-> Str(<<"Bad Request">>)]))),
     Http(FALSE, 500, EmptyBody),
     Http(FALSE, 503, TextBody(<<"Service Unavailable">>))}

\* 2xx responses whose body is no JSON document
MalformedResponses ==
    {Http(TRUE, 200, EmptyBody), Http(TRUE, 200, TextBody(<<"<html>">>))}

TokenResponses ==
    FailureResponses \cup MalformedResponses
    \cup {Http(TRUE, 200,
               JsonBody(Obj([access_token |-> Str(<<"ya29">>),
                             expires_in |-> Num(3599)])))}

MessageIds == {<<"m", "1">>, <<"m", "/", "2">>}

\* the lists of at most MaxIds message ids
IdLists == UNION {[1..n -> MessageIds] : n \in 0..MaxIds}

ListResponses ==
    FailureResponses \cup MalformedResponses
    \cup {Http(TRUE, 200, JsonBody(Obj([resultSizeEstimate |-> Num(0)])))}
    \cup {Http(TRUE, 200,
               JsonBody(Obj([messages |->
                   Arr([i \in 1..Len(ids) |-> Obj([id |-> Str(ids[i])])])])))
          : ids \in IdLists}

Header(name, value) == Obj([name |-> Str(name), value |-> Str(value)])

\* base64url of "Hi &amp; bye"
SampleData == <<"S", "G", "k", "g", "J", "m", "F", "t", "c", "D", "s", "g", "Y", "n", "l", "l">>

\* the messages the remote may hold
Details ==
    {Obj([id |-> Str(<<"m", "1">>), threadId |-> Str(<<"t", "1">>),
          snippet |-> Str(<<"H", "i">>),
          payload |-> Obj([mimeType |-> TextPlain,
                           headers |-> Arr(<<Header(From, <<"f", "@", "x">>),
                                             Header(Subject, <<"H", "i">>)>>),
                           body |-> Obj([data |-> Str(SampleData)])])]),
     Obj([id |-> Str(<<"m", "/", "2">>),
          payload |-> Obj([mimeType |-> Str(<<"multipart/alternative">>),
                           headers |-> Arr(<<Header(<<"f", "r", "o", "m">>, <<"g", "@", "x">>)>>),
                           parts |-> Arr(<<Obj([mimeType |-> Str(<<"text/html">>),
                                                body |-> Obj([data |-> Str(SampleData)])]),
                                           Obj([mimeType |-> TextPlain,
                                                body |-> Obj([data |-> Str(SampleData)])])>>)])])}

DetailResponses ==
    FailureResponses \cup MalformedResponses
    \cup {Http(TRUE, 200, JsonBody(d)) : d \in Details}

\* at most one header of each name, in a fixed order
OptionalHeader(name, value) == IF value = <<>> THEN <<>> ELSE <<Header(name, value)>>

OriginalHeaderLists ==
    {OptionalHeader(ReplyTo, r) \o OptionalHeader(From, f) \o OptionalHeader(Subject, s)
     \o OptionalHeader(MessageID, m) \o OptionalHeader(References, x)
     : r \in {<<>>, <<"r", "@", "x">>}, f \in {<<>>, <<"f", "@", "x">>},
       s \in {<<>>, <<"H", "i">>, <<"R", "E", ":", " ", "H", "i">>},
       m \in {<<>>, <<"C">>}, x \in {<<>>, <<"A", " ", "B">>}}

\* header lists that tell the recipient rules apart: names in another casing,
\* a Reply-To without a value, headers that occur twice, no value at all
RecipientHeaderLists ==
    {<<Header(<<"r", "e", "p", "l", "y", "-", "t", "o">>, <<"r", "@", "x">>),
       Header(<<"F", "R", "O", "M">>, <<"f", "@", "x">>)>>,
     <<Header(<<"F", "R", "O", "M">>, <<"f", "@", "x">>)>>,
     <<Header(ReplyTo, <<>>), Header(From, <<"f", "@", "x">>)>>,
     <<Header(From, <<"f", "@", "x">>), Header(From, <<"g", "@", "x">>),
       Header(ReplyTo, <<"r", "@", "x">>), Header(ReplyTo, <<"q", "@", "x">>)>>,
     <<Header(ReplyTo, <<>>), Header(ReplyTo, <<"q", "@", "x">>),
       Header(From, <<"f", "@", "x">>), Header(From, <<"g", "@", "x">>)>>,
     <<Header(ReplyTo, <<>>), Header(From, <<>>), Header(Subject, <<"H", "i">>)>>}

Originals ==
    {Obj([payload |-> Obj([headers |-> Arr(h)])])
     : h \in OriginalHeaderLists \cup RecipientHeaderLists}
    \cup {Obj([threadId |-> Str(<<"t", "1">>), payload |-> Obj([headers |-> Arr(h)])])
          : h \in OriginalHeaderLists}

OriginalResponses ==
    FailureResponses \cup MalformedResponses
    \cup {Http(TRUE, 200, JsonBody(o)) : o \in Originals}

DraftResponses ==
    FailureResponses \cup MalformedResponses
    \cup {Http(TRUE, 200, JsonBody(Obj([id |-> Str(<<"d", "1">>)])))}

(***************************************************************************)
(* The state machine.                                                      *)
(***************************************************************************)
NoCall == [name |-> "", arguments |-> Undefined]

Init ==
    /\ env \in Envs
    /\ pc = "idle"
    /\ call = NoCall
    /\ frame = NoFrame
    /\ inflight = <<>>
    /\ httpLog = <<>>
    /\ respLog = <<>>
    /\ result = NoResult
    /\ tools = toolsAtStartup
    /\ listed = NotListed
    /\ earlier = FALSE

\* the handler goes on to its next return, throw or await; remaining are the
\* requests still in flight
ApplyStep(step, remaining) ==
    /\ pc' = IF step.kind = "await" THEN step.pc ELSE "done"
    /\ frame' = IF step.kind = "await" THEN step.frame ELSE NoFrame
    /\ inflight' = IF step.kind = "await" THEN remaining \o step.requests ELSE remaining
    /\ httpLog' = IF step.kind = "await" THEN httpLog \o step.requests ELSE httpLog
    /\ result' = IF step.kind = "await" THEN result ELSE step.result

\* the handler of a CallTool request runs to its first await
Start(name, arguments, now) ==
    /\ call' = [name |-> name, arguments |-> arguments]
    /\ respLog' = <<>>
    /\ ApplyStep(CallToolHandler(name, arguments, env, now), <<>>)
    /\ UNCHANGED <<env, tools, listed, earlier>>

CallGetTime ==
    /\ pc = "idle"
    /\ \E now \in Clock, arguments \in NoArguments : Start("get_time", arguments, now)

CallGetAuthUrl ==
    /\ pc = "idle"
    /\ \E arguments \in AuthUrlArguments : Start("gmail_get_auth_url", arguments, NoClock)

CallExchangeCode ==
    /\ pc = "idle"
    /\ \E arguments \in ExchangeCodeArguments :
           Start("gmail_exchange_code", arguments, NoClock)

CallRefreshAccessToken ==
    /\ pc = "idle"
    /\ \E arguments \in RefreshArguments :
           Start("gmail_refresh_access_token", arguments, NoClock)

CallGetUnreadEmails ==
    /\ pc = "idle"
    /\ \E arguments \in UnreadArguments : Start("get_unread_emails", arguments, NoClock)

CallCreateDraftReply ==
    /\ pc = "idle"
    /\ \E arguments \in DraftArguments : Start("create_draft_reply", arguments, NoClock)

CallUnknown ==
    /\ pc = "idle"
    /\ \E name \in UnknownNames, arguments \in NoArguments : Start(name, arguments, NoClock)

\* Resume keeping the access token of a token response in process.env: a
\* variant in which a call leaves something behind for the calls after it
ResumeStoringToken(response, step) ==
    LET fetched == fetchJson(response)
        token == IF fetched.threw THEN Undefined ELSE OptGet(fetched.data, "access_token")
    IN  /\ respLog' = Append(respLog, [step |-> Head(inflight).step,
                                       response |-> response,
                                       fetched |-> fetched])
        /\ ApplyStep(step, Tail(inflight))
        /\ env' = IF token.t = "string" THEN [env EXCEPT !.GOOGLE_ACCESS_TOKEN = token]
                  ELSE env
        /\ UNCHANGED <<call, tools, listed, earlier>>

\* the oldest request in flight is answered and the handler resumes
Resume(response, step) ==
    /\ respLog' = Append(respLog, [step |-> Head(inflight).step,
                                   response |-> response,
                                   fetched |-> fetchJson(response)])
    /\ ApplyStep(step, Tail(inflight))
    /\ UNCHANGED <<env, call, tools, listed, earlier>>

ExchangeResponse ==
    /\ pc = "await_exchange" /\ inflight # <<>>
    /\ \E response \in TokenResponses :
           Resume(response, ExchangeCodeAfterFetch(frame, fetchJson(response)))

RefreshResponse ==
    /\ pc = "await_refresh" /\ inflight # <<>>
    /\ \E response \in TokenResponses :
           Resume(response, RefreshAccessTokenAfterFetch(frame, fetchJson(response)))

ListResponse ==
    /\ pc = "await_list" /\ inflight # <<>>
    /\ \E response \in ListResponses :
           Resume(response, UnreadAfterList(frame, fetchJson(response)))

DetailResponse ==
    /\ pc = "await_detail" /\ inflight # <<>>
    /\ \E response \in DetailResponses :
           Resume(response, UnreadAfterDetail(frame, fetchJson(response)))

OriginalResponse ==
    /\ pc = "await_original" /\ inflight # <<>>
    /\ \E response \in OriginalResponses :
           Resume(response, DraftAfterOriginal(frame, fetchJson(response)))

DraftResponse ==
    /\ pc = "await_draft" /\ inflight # <<>>
    /\ \E response \in DraftResponses :
           Resume(response, DraftAfterPost(frame, fetchJson(response)))

\* the caller has the outcome; the server waits for the next request
Forget ==
    /\ pc = "done"
    /\ pc' = "idle"
    /\ call' = NoCall
    /\ result' = NoResult
    /\ httpLog' = <<>>
    /\ respLog' = <<>>
    /\ UNCHANGED <<env, frame, inflight, tools, listed>>

Finish == Forget /\ UNCHANGED earlier

\* the same, with the record that a call has been handled
FinishCall == Forget /\ earlier' = TRUE

\* the handler of a ListTools request: it answers with the catalog
ListTools ==
    /\ pc = "idle"
    /\ listed' = [tools |-> tools]
    /\ UNCHANGED <<env, pc, call, frame, inflight, httpLog, respLog, result, tools,
                   earlier>>

Next ==
    \/ CallGetTime
    \/ CallGetAuthUrl
    \/ CallExchangeCode
    \/ CallRefreshAccessToken
    \/ CallGetUnreadEmails
    \/ CallCreateDraftReply
    \/ CallUnknown
    \/ ExchangeResponse
    \/ RefreshResponse
    \/ ListResponse
    \/ DetailResponse
    \/ OriginalResponse
    \/ DraftResponse
    \/ Finish

Spec == Init /\ [][Next]_vars

(***************************************************************************)
(* The server over a session: requests for the catalog between the calls,  *)
(* and the record of the calls handled before.  The configurations are the *)
(* complete one, the one without tokens and the empty one.                 *)
(***************************************************************************)
SessionEnvs ==
    {e \in Envs :
        /\ Truthy(e.GOOGLE_CLIENT_ID) <=> Truthy(e.GOOGLE_CLIENT_SECRET)
        /\ e.GOOGLE_CLIENT_ID # Str(<<>>) /\ e.GOOGLE_ACCESS_TOKEN # Str(<<>>)
        /\ Truthy(e.GOOGLE_REFRESH_TOKEN) => Truthy(e.GOOGLE_CLIENT_ID)
        /\ Truthy(e.GOOGLE_ACCESS_TOKEN) => Truthy(e.GOOGLE_REFRESH_TOKEN)}

SessionInit == Init /\ env \in SessionEnvs

SessionNext ==
    \/ ListTools
    \/ CallGetTime
    \/ CallGetAuthUrl
    \/ CallExchangeCode
    \/ CallRefreshAccessToken
    \/ CallGetUnreadEmails
    \/ CallCreateDraftReply
    \/ CallUnknown
    \/ ExchangeResponse
    \/ RefreshResponse
    \/ ListResponse
    \/ DetailResponse
    \/ OriginalResponse
    \/ DraftResponse
    \/ FinishCall

SessionSpec == SessionInit /\ [][SessionNext]_vars

\* every HTTP request issued gets its response, or fails, in the end: fetch
\* settles, and the handler awaiting it is then resumed
FetchSettles ==
    /\ WF_vars(ExchangeResponse)
    /\ WF_vars(RefreshResponse)
    /\ WF_vars(ListResponse)
    /\ WF_vars(DetailResponse)
    /\ WF_vars(OriginalResponse)
    /\ WF_vars(DraftResponse)

\* the complete configuration and the empty one
FairEnvs ==
    {e \in SessionEnvs : Truthy(e.GOOGLE_ACCESS_TOKEN) <=> Truthy(e.GOOGLE_CLIENT_ID)}

FairInit == Init /\ env \in FairEnvs

FairSpec == FairInit /\ [][Next]_vars /\ FetchSettles

(***************************************************************************)
(* The properties.  A call is in progress from the request to Finish; what *)
(* it has issued and received so far is in httpLog and respLog.            *)
(***************************************************************************)
\* the argument k of the call being handled
Arg(k) == Get(Coalesce(call.arguments, Obj(<<>>)), k)

\* an argument that is no string, or of which trimming and stripping the
\* trailing backslashes leaves nothing
BlankArgument(v) == v.t # "string" \/ StripTrailingBackslashes(Trim(v.s)) = <<>>

InCall(name) == pc # "idle" /\ call.name = name

ResultText == result.value.content[1].text

\* the handler returned a Failure envelope: {error, details}
Failure ==
    /\ result.outcome = "returned"
    /\ "json" \in DOMAIN ResultText
    /\ ResultText.json.t = "object"
    /\ "error" \in DOMAIN ResultText.json.o
    /\ DOMAIN ResultText.json.o \subseteq {"error", "details"}

FailureMessage == ResultText.json.o.error.s

\* the handler returned an envelope that is no Failure
Success == result.outcome = "returned" /\ ~Failure

Last(seq) == seq[Len(seq)]

\* the messages of the list response, once it is there
ListedMessages ==
    LET messages == OptGet(respLog[1].fetched.data, "messages")
    IN  IF messages.t = "array" THEN messages.a ELSE <<>>

\* the userId the requests of the call are for
RequestUserId == Or(getString(Arg("userId")), Str(Me)).s

\* C1: every call of a tool of the catalog ends with a returned ToolResult,
\* never with an exception raised to the caller of the request handler.
C1_NeverRaises ==
    pc = "done" /\ call.name \in ToolNames => result.outcome = "returned"

MissingRequired ==
    \/ /\ InCall("gmail_get_auth_url")
       /\ ~Truthy(env.GOOGLE_REDIRECT_URI) /\ BlankArgument(Arg("redirectUri"))
    \/ /\ InCall("gmail_exchange_code")
       /\ BlankArgument(Arg("code")) \/ BlankArgument(Arg("redirectUri"))
    \/ /\ InCall("gmail_refresh_access_token")
       /\ ~Truthy(env.GOOGLE_REFRESH_TOKEN) /\ BlankArgument(Arg("refreshToken"))
    \/ /\ InCall("create_draft_reply")
       /\ BlankArgument(Arg("messageId")) \/ BlankArgument(Arg("body"))

\* the messages a call that lacks a required argument is answered with
MissingMessages ==
    CASE call.name = "gmail_get_auth_url" ->
             {<<"Missing redirectUri. Pass redirectUri or set GOOGLE_REDIRECT_URI in secrets.env.">>}
      [] call.name = "gmail_exchange_code" -> {<<"Missing code or redirectUri.">>}
      [] call.name = "gmail_refresh_access_token" ->
             {<<"Missing refresh token. Set GOOGLE_REFRESH_TOKEN or pass refreshToken.">>}
      [] call.name = "create_draft_reply" ->
             IF Truthy(env.GOOGLE_ACCESS_TOKEN)
             THEN {<<"Missing required fields: messageId, body.">>}
             ELSE {getAuthHelpText}
      [] OTHER -> {}

\* C3: a call that lacks a required argument (missing, or blank once
\* sanitised) has returned a Failure with the message of its tool and has
\* issued no HTTP request; it never waits for a response.
C3_FailFast ==
    MissingRequired =>
        /\ pc = "done"
        /\ Failure
        /\ FailureMessage \in MissingMessages
        /\ httpLog = <<>>

C3_DraftWithoutBody ==
    /\ pc = "done" /\ call.name = "create_draft_reply"
    /\ Truthy(env.GOOGLE_ACCESS_TOKEN)
    /\ ~BlankArgument(Arg("messageId")) /\ BlankArgument(Arg("body"))
    /\ Failure /\ httpLog = <<>>

\* C4: get_unread_emails without an access token, in the arguments or in
\* GOOGLE_ACCESS_TOKEN, returns the Failure whose message is the help text
\* naming gmail_get_auth_url and gmail_exchange_code, and issues no request.
C4_NoTokenNoRequest ==
    /\ InCall("get_unread_emails")
    /\ ~Truthy(env.GOOGLE_ACCESS_TOKEN) /\ BlankArgument(Arg("accessToken"))
    => /\ pc = "done"
       /\ Failure
       /\ FailureMessage = getAuthHelpText
       /\ \A tool \in {"gmail_get_auth_url", "gmail_exchange_code"} :
              \E i \in 1..Len(FailureMessage) : FailureMessage[i] = tool
       /\ httpLog = <<>>

C4_UnreadWithoutToken ==
    /\ pc = "done" /\ call.name = "get_unread_emails"
    /\ env.GOOGLE_ACCESS_TOKEN = Undefined /\ Arg("accessToken") = Undefined
    /\ Failure /\ httpLog = <<>>

\* C5: get_unread_emails is all or nothing.  When a fetch of the call failed,
\* the result is the Failure made of the message of that fetch and of the
\* status of the environment, with nothing of the messages fetched before;
\* a Success comes only after the list response and one response for each
\* of its ids, none of them failed.
C5_AllOrNothing ==
    pc = "done" /\ call.name = "get_unread_emails" /\ result.outcome = "returned" =>
        /\ (\E i \in 1..Len(respLog) : respLog[i].fetched.threw) =>
               /\ Failure
               /\ ResultText.json
                      = Obj([error |-> Str(Last(respLog).fetched.message),
                             details |-> getAuthEnvStatus(env)])
        /\ Success =>
               /\ respLog # <<>>
               /\ Len(respLog) = 1 + Len(ListedMessages)
               /\ \A i \in 1..Len(respLog) : ~respLog[i].fetched.threw

C5_SecondDetailFailed ==
    /\ pc = "done" /\ call.name = "get_unread_emails"
    /\ Len(respLog) = 3 /\ Len(ListedMessages) = 2
    /\ ~respLog[2].fetched.threw /\ respLog[3].fetched.threw
    /\ Failure

\* the URL of the detail request for the k-th listed message
DetailHref(k) ==
    <<GmailBase>> \o PercentEncode(RequestUserId) \o <<"/messages/">>
    \o PercentEncode(ToStr(OptGet(ListedMessages[k], "id")))

\* C6: in get_unread_emails at most one request is in flight and a request
\* is issued only when every earlier one is answered; the k-th request
\* after the list request is the detail request for the k-th listed id; a
\* Success carries one entry per listed id, the k-th made from the response
\* to the k-th detail request.
C6_Sequential ==
    InCall("get_unread_emails") =>
        /\ Len(inflight) <= 1
        /\ Len(httpLog) = Len(respLog) + Len(inflight)
        /\ \A k \in 2..Len(httpLog) :
               /\ k - 1 <= Len(ListedMessages)
               /\ httpLog[k].step = <<"detail", k - 1>>
               /\ httpLog[k].url.href = DetailHref(k - 1)
        /\ pc = "done" /\ Success =>
               /\ Len(ResultText.json.o.messages.a) = Len(ListedMessages)
               /\ \A k \in 1..Len(ListedMessages) :
                      ResultText.json.o.messages.a[k]
                          = JsonValue(UnreadEntry(respLog[k + 1].fetched.data))

C6_TwoFetchedInOrder ==
    /\ pc = "done" /\ call.name = "get_unread_emails" /\ Success
    /\ Len(ListedMessages) = 2
    /\ ListedMessages[1] # ListedMessages[2]
    /\ Len(httpLog) = 3
    /\ respLog[2].fetched.data # respLog[3].fetched.data

\* C7: no retries.  Within a call no step issues its request twice, and a
\* failed request is the last one: when its failure is received nothing is
\* in flight, no further request is issued and the call has returned a
\* Failure.
C7_NoRetry ==
    pc # "idle" =>
        /\ \A i, j \in 1..Len(httpLog) : httpLog[i].step = httpLog[j].step => i = j
        /\ \A i \in 1..Len(respLog) :
               respLog[i].fetched.threw =>
                   /\ i = Len(respLog)
                   /\ Len(httpLog) = i
                   /\ inflight = <<>>
                   /\ pc = "done"
                   /\ Failure

C7_DetailFailedOnce ==
    /\ pc = "done" /\ call.name = "get_unread_emails"
    /\ Len(respLog) = 2 /\ respLog[2].fetched.threw
    /\ Len(ListedMessages) = 2
    /\ Len(httpLog) = 2

\* get_unread_emails was called with maxResults = 0 and has sent a request
MaxResultsZero ==
    InCall("get_unread_emails") /\ Arg("maxResults") = Num(0) /\ httpLog # <<>>

OriginalHeader(name) ==
    getHeaderValue(Get(respLog[1].fetched.data, "payload"), name)

\* the message of the draft the POST carries
DraftMessage == httpLog[2].body.json.o.message.o

\* C9: create_draft_reply sends a GET of the original message's metadata
\* first and then at most one POST to the drafts endpoint; the POST is sent
\* only after the GET succeeded and gave a Reply-To or a From, and its
\* message.threadId is the threadId of the GET's response, left out exactly
\* when the original has none.
C9_GetThenPost ==
    InCall("create_draft_reply") =>
        /\ Len(httpLog) <= 2
        /\ Len(inflight) <= 1
        /\ Len(httpLog) >= 1 =>
               /\ httpLog[1].method = "GET"
               /\ httpLog[1].url.href
                      = <<GmailBase>> \o PercentEncode(RequestUserId) \o <<"/messages/">>
                        \o PercentEncode(getString(Arg("messageId")).s)
               /\ httpLog[1].url.searchParams[1] = <<"format", <<"metadata">>>>
        /\ Len(httpLog) = 2 =>
               /\ httpLog[2].method = "POST"
               /\ httpLog[2].url.href
                      = <<GmailBase>> \o PercentEncode(RequestUserId) \o <<"/drafts">>
               /\ Len(respLog) >= 1 /\ ~respLog[1].fetched.threw
               /\ Truthy(OriginalHeader(ReplyTo)) \/ Truthy(OriginalHeader(From))
               /\ LET threadId == OptGet(respLog[1].fetched.data, "threadId")
                  IN  IF threadId = Undefined
                      THEN "threadId" \notin DOMAIN DraftMessage
                      ELSE "threadId" \in DOMAIN DraftMessage
                           /\ DraftMessage.threadId = threadId

C9_DraftInThread ==
    /\ pc = "done" /\ call.name = "create_draft_reply" /\ Success
    /\ Len(httpLog) = 2 /\ Len(respLog) = 2
    /\ "threadId" \in DOMAIN DraftMessage
    /\ DraftMessage.threadId = Str(<<"t", "1">>)

\* s.split("\r\n")
RECURSIVE SplitLines(_)
SplitLines(s) ==
    LET breaks == {i \in 1..(Len(s) - 1) : s[i] = "\r" /\ s[i + 1] = "\n"}
    IN  IF breaks = {} THEN <<s>>
        ELSE LET at == CHOOSE i \in breaks : \A j \in breaks : i <= j
             IN  <<SubSeq(s, 1, at - 1)>> \o SplitLines(SubSeq(s, at + 2, Len(s)))

\* the lines before the first empty one
RECURSIVE UpToEmptyLine(_)
UpToEmptyLine(lines) ==
    IF lines = <<>> \/ Head(lines) = <<>> THEN <<>>
    ELSE <<Head(lines)>> \o UpToEmptyLine(Tail(lines))

\* the header lines of the MIME text the draft carries
DraftHeaders == UpToEmptyLine(SplitLines(base64UrlDecode(DraftMessage.raw.s)))

\* the lines that begin with prefix
LinesWith(lines, prefix) ==
    {lines[i] : i \in {j \in 1..Len(lines) : startsWith(lines[j], prefix)}}

\* C10: the References of the reply is the original References followed by
\* the original Message-ID, joined by one space, an absent piece left out;
\* In-Reply-To is the original Message-ID exactly when there is one; with
\* neither in the original, the reply has neither header.
C10_ReferencesChain ==
    InCall("create_draft_reply") /\ Len(httpLog) = 2 =>
        LET messageId == OriginalHeader(MessageID)
            references == OriginalHeader(References)
            headers == DraftHeaders
        IN  /\ LinesWith(headers, ReferencesPrefix)
                   = IF Truthy(references) /\ Truthy(messageId)
                     THEN {ReferencesPrefix \o references.s \o <<" ">> \o messageId.s}
                     ELSE IF Truthy(messageId) THEN {ReferencesPrefix \o messageId.s}
                     ELSE IF Truthy(references) THEN {ReferencesPrefix \o references.s}
                     ELSE {}
            /\ LinesWith(headers, InReplyToPrefix)
                   = IF Truthy(messageId) THEN {InReplyToPrefix \o messageId.s} ELSE {}

C10_ChainExtended ==
    /\ InCall("create_draft_reply") /\ Len(httpLog) = 2
    /\ OriginalHeader(References) = Str(<<"A", " ", "B">>)
    /\ OriginalHeader(MessageID) = Str(<<"C">>)
    /\ LinesWith(DraftHeaders, ReferencesPrefix)
           = {ReferencesPrefix \o <<"A", " ", "B", " ", "C">>}
    /\ LinesWith(DraftHeaders, InReplyToPrefix) = {InReplyToPrefix \o <<"C">>}

\* the headers of the original message the GET gave, none when it has no list
ReceivedHeaders ==
    LET headers == OptGet(OptGet(respLog[1].fetched.data, "payload"), "headers")
    IN  IF headers.t = "array" THEN headers.a ELSE <<>>

\* the value of the first of headers whose name is name in any casing, ""
\* when there is none
FirstValue(headers, name) ==
    LET hits == {i \in 1..Len(headers) : toLowerCase(headers[i].o.name.s) = name}
    IN  IF hits = {} THEN <<>>
        ELSE headers[CHOOSE i \in hits : \A j \in hits : i <= j].o.value.s

\* the recipient the original asks for: its Reply-To, else its From
AskedRecipient ==
    LET replyTo == FirstValue(ReceivedHeaders, <<"r", "e", "p", "l", "y", "-", "t", "o">>)
    IN  IF replyTo # <<>> THEN replyTo
        ELSE FirstValue(ReceivedHeaders, <<"f", "r", "o", "m">>)

\* C12: once the GET of create_draft_reply gave the original message, the To
\* of the reply is the value of the original's first Reply-To header (names
\* compared in any casing) when that value is not empty, and else the value
\* of its first From header; when neither gives a value the call returns the
\* Failure "Could not determine reply recipient." and no POST is sent.
C12_ReplyRecipient ==
    InCall("create_draft_reply") /\ Len(respLog) >= 1
    /\ ~respLog[1].fetched.threw /\ ~IsNullish(respLog[1].fetched.data) =>
        IF AskedRecipient = <<>>
        THEN /\ Len(httpLog) = 1
             /\ pc = "done" /\ Failure
             /\ FailureMessage = <<"Could not determine reply recipient.">>
        ELSE /\ Len(httpLog) = 2
             /\ httpLog[2].method = "POST"
             /\ LET headers == DraftHeaders
                IN  /\ headers[1] = ToPrefix \o AskedRecipient
                    /\ LinesWith(headers, ToPrefix) = {ToPrefix \o AskedRecipient}

\* a draft to the Reply-To of an original that has a From before it
C12_ReplyToBeforeFrom ==
    /\ InCall("create_draft_reply") /\ Len(httpLog) = 2
    /\ Len(ReceivedHeaders) = 4
    /\ ReceivedHeaders[1].o.name.s = From
    /\ ReceivedHeaders[3].o.value.s = <<"r", "@", "x">>
    /\ DraftHeaders[1] = ToPrefix \o <<"r", "@", "x">>

\* the value of the argument k, trimmed and without its trailing backslashes
GivenArgument(k) == StripTrailingBackslashes(Trim(Arg(k).s))

\* C17: the redirect_uri of the URL gmail_get_auth_url returns is the
\* redirectUri argument when the argument is not blank, and the configured
\* GOOGLE_REDIRECT_URI only when it is.
C17_RedirectArgumentWins ==
    /\ pc = "done" /\ call.name = "gmail_get_auth_url"
    /\ result.outcome = "returned" /\ "url" \in DOMAIN ResultText
    => ResultText.url.searchParams[2]
           = <<"redirect_uri",
               IF ~BlankArgument(Arg("redirectUri")) THEN GivenArgument("redirectUri")
               ELSE env.GOOGLE_REDIRECT_URI.s>>

\* C18: every request of get_unread_emails and create_draft_reply carries as
\* its bearer token the accessToken argument when that is not blank and the
\* configured GOOGLE_ACCESS_TOKEN otherwise, and a call with either of them
\* is not refused for want of a token; the request of
\* gmail_refresh_access_token carries the refreshToken argument when that is
\* not blank and the configured GOOGLE_REFRESH_TOKEN otherwise.
C18_ArgumentTokenWins ==
    /\ InCall("get_unread_emails") \/ InCall("create_draft_reply") =>
           /\ \A i \in 1..Len(httpLog) :
                  httpLog[i].headers.Authorization
                      = Bearer(IF ~BlankArgument(Arg("accessToken"))
                               THEN GivenArgument("accessToken")
                               ELSE env.GOOGLE_ACCESS_TOKEN.s)
           /\ ~BlankArgument(Arg("accessToken")) /\ pc = "done" /\ Failure =>
                  FailureMessage # getAuthHelpText
    /\ InCall("gmail_refresh_access_token") =>
           \A i \in 1..Len(httpLog) :
               httpLog[i].body.refresh_token
                   = IF ~BlankArgument(Arg("refreshToken"))
                     THEN GivenArgument("refreshToken")
                     ELSE env.GOOGLE_REFRESH_TOKEN.s

\* the configured value v is there: neither absent nor empty
Present(v) == v # Undefined /\ v # Str(<<>>)

\* the details of the Failure the call returned
FailureDetails == ResultText.json.o.details

\* which of the four configured values are there
PresenceOf(e) ==
    Obj([clientId |-> Bool(Present(e.GOOGLE_CLIENT_ID)),
         clientSecret |-> Bool(Present(e.GOOGLE_CLIENT_SECRET)),
         accessToken |-> Bool(Present(e.GOOGLE_ACCESS_TOKEN)),
         refreshToken |-> Bool(Present(e.GOOGLE_REFRESH_TOKEN))])

\* the values another run may have in the place of v: another value when v
\* is there, absent or empty when it is not
OtherValues(v) ==
    IF Present(v) THEN {v, Str(<<"z", "z">>)} ELSE {Undefined, Str(<<>>)}

\* the configurations that differ from e in the values of the client id, the
\* client secret and the two tokens only, the same of them being there
SamePresence(e) ==
    {[GOOGLE_CLIENT_ID |-> i, GOOGLE_CLIENT_SECRET |-> c, GOOGLE_ACCESS_TOKEN |-> a,
      GOOGLE_REFRESH_TOKEN |-> r, GOOGLE_REDIRECT_URI |-> e.GOOGLE_REDIRECT_URI]
     : i \in OtherValues(e.GOOGLE_CLIENT_ID), c \in OtherValues(e.GOOGLE_CLIENT_SECRET),
       a \in OtherValues(e.GOOGLE_ACCESS_TOKEN), r \in OtherValues(e.GOOGLE_REFRESH_TOKEN)}

PastArgumentChecks ==
    CASE call.name = "gmail_get_auth_url" ->
             Present(env.GOOGLE_REDIRECT_URI) \/ ~BlankArgument(Arg("redirectUri"))
      [] call.name = "gmail_exchange_code" ->
             ~BlankArgument(Arg("code")) /\ ~BlankArgument(Arg("redirectUri"))
      [] call.name = "gmail_refresh_access_token" ->
             Present(env.GOOGLE_REFRESH_TOKEN) \/ ~BlankArgument(Arg("refreshToken"))
      [] OTHER -> FALSE

\* C20: in gmail_get_auth_url, gmail_exchange_code and
\* gmail_refresh_access_token, a call that is past the checks of its
\* arguments returns the Failure with the missing-credentials message and
\* the status of the configuration, and sends no request, exactly when
\* GOOGLE_CLIENT_ID or GOOGLE_CLIENT_SECRET is absent or empty; otherwise
\* the configured client id, and the client secret where the tool sends one,
\* are the values the call uses.
C20_MissingCredentials ==
    pc # "idle" /\ PastArgumentChecks =>
        IF ~Present(env.GOOGLE_CLIENT_ID) \/ ~Present(env.GOOGLE_CLIENT_SECRET)
        THEN /\ pc = "done" /\ Failure
             /\ FailureMessage
                    = <<"Missing GOOGLE_CLIENT_ID/GOOGLE_CLIENT_SECRET. Add them to secrets.env.">>
             /\ FailureDetails = PresenceOf(env)
             /\ httpLog = <<>>
        ELSE /\ pc = "done" /\ Failure => FailureMessage # MissingCredentialsMessage
             /\ IF call.name = "gmail_get_auth_url"
                THEN /\ pc = "done" /\ Success
                     /\ ResultText.url.searchParams[1]
                            = <<"client_id", env.GOOGLE_CLIENT_ID.s>>
                ELSE /\ Len(httpLog) = 1
                     /\ httpLog[1].body.client_id = env.GOOGLE_CLIENT_ID.s
                     /\ httpLog[1].body.client_secret = env.GOOGLE_CLIENT_SECRET.s

\* gmail_exchange_code refused for an empty client secret
C20_EmptySecretRefused ==
    /\ pc = "done" /\ call.name = "gmail_exchange_code"
    /\ env.GOOGLE_CLIENT_ID = Str(<<"i", "d">>)
    /\ env.GOOGLE_CLIENT_SECRET = Str(<<>>)
    /\ Failure /\ FailureMessage = MissingCredentialsMessage
    /\ httpLog = <<>>

\* the string items of items, each followed by a space
RECURSIVE SpaceAfterEach(_)
SpaceAfterEach(items) ==
    IF items = <<>> THEN <<>>
    ELSE (IF Head(items).t = "string" THEN Head(items).s \o <<" ">> ELSE <<>>)
         \o SpaceAfterEach(Tail(items))

\* the scope the URL is to carry: the string items of the scope argument with
\* single spaces between them, the read-only Gmail scope when there is none
AskedScope ==
    LET scope == Arg("scope")
        items == IF scope.t = "array" THEN SpaceAfterEach(scope.a) ELSE <<>>
    IN  IF items = <<>> THEN <<"https://www.googleapis.com/auth/gmail.readonly">>
        ELSE SubSeq(items, 1, Len(items) - 1)

\* the argument k is text, as the tool reads it: trimmed, without trailing
\* backslashes
ArgumentIs(k, text) == ~BlankArgument(Arg(k)) /\ GivenArgument(k) = text

NoJsonSuccess(response) ==
    response.transport = "ok" /\ response.status \in 200..299
    /\ response.body.kind \in {"empty", "text"}

\* what fetchJson is to give for such a response
WrappedBody(response) ==
    IF response.body.kind = "empty" THEN Null
    ELSE Obj([raw |-> Str(response.body.text)])

\* C23: a 2xx response whose body is no JSON is no error.  fetchJson gives
\* {raw: text} for it, and null for an empty body, and the call goes on with
\* that value to a returned result: get_unread_emails takes such a list
\* response for a list without messages and returns the empty Success after
\* its one request, and a token tool returns the value as its Success.
C23_MalformedBodyIsNoError ==
    pc # "idle" =>
        /\ \A i \in 1..Len(respLog) :
               NoJsonSuccess(respLog[i].response) =>
                   /\ ~respLog[i].fetched.threw
                   /\ respLog[i].fetched.data = WrappedBody(respLog[i].response)
        /\ Len(respLog) >= 1 /\ NoJsonSuccess(respLog[1].response) =>
               /\ pc = "done" => result.outcome = "returned"
               /\ InCall("get_unread_emails") =>
                      /\ pc = "done" /\ Success
                      /\ ResultText.json = Obj([messages |-> Arr(<<>>)])
                      /\ Len(httpLog) = 1
               /\ InCall("gmail_exchange_code") \/ InCall("gmail_refresh_access_token") =>
                      /\ pc = "done" /\ Success
                      /\ ResultText.json = WrappedBody(respLog[1].response)

\* the empty Success of get_unread_emails after a list response that is an
\* HTML page
C23_HtmlListGivesEmptySuccess ==
    /\ pc = "done" /\ call.name = "get_unread_emails"
    /\ Len(respLog) = 1
    /\ respLog[1].response.status = 200
    /\ respLog[1].response.body = [kind |-> "text", text |-> <<"<html>">>]
    /\ Success /\ ResultText.json = Obj([messages |-> Arr(<<>>)])

\* the handler returned an envelope of one block of type "text"
OneTextBlock ==
    /\ result.outcome = "returned"
    /\ DOMAIN result.value = {"content"}
    /\ Len(result.value.content) = 1
    /\ DOMAIN result.value.content[1] = {"type", "text"}
    /\ result.value.content[1].type = "text"

\* the text of the block is the JSON serialisation of a value
JsonText == DOMAIN ResultText = {"json"}

\* C27: every result a call returns is an envelope of one block of type
\* "text".  The text is a JSON serialisation for every Failure, an object
\* whose error is a string, and for every Success of the four operations
\* that issue requests; the Success of get_time is a sentence with the time
\* in it and the Success of gmail_get_auth_url is the URL itself, neither
\* of them JSON.
C27_TextEnvelope ==
    pc = "done" /\ result.outcome = "returned" =>
        /\ OneTextBlock
        /\ Failure => JsonText /\ ResultText.json.o.error.t = "string"
        /\ CASE call.name = "get_time" -> DOMAIN ResultText = {"plain"}
             [] call.name = "gmail_get_auth_url" /\ ~Failure ->
                    DOMAIN ResultText = {"url"}
             [] OTHER -> JsonText

C27_AuthUrlTextIsTheUrl ==
    /\ pc = "done" /\ call.name = "gmail_get_auth_url"
    /\ OneTextBlock /\ ~Failure
    /\ ResultText.url.href = <<"https://accounts.google.com/o/oauth2/v2/auth">>

\* C27 as the specification states it: the text of every returned result is
\* a JSON serialisation, whatever the operation and the outcome.
C27_EveryTextIsJson ==
    pc = "done" /\ result.outcome = "returned" => OneTextBlock /\ JsonText

\* the handler, standing at the await of at, goes on with what was fetched
Resumed(at, fr, fetched) ==
    CASE at = "await_exchange" -> ExchangeCodeAfterFetch(fr, fetched)
      [] at = "await_refresh" -> RefreshAccessTokenAfterFetch(fr, fetched)
      [] at = "await_list" -> UnreadAfterList(fr, fetched)
      [] at = "await_detail" -> UnreadAfterDetail(fr, fetched)
      [] at = "await_original" -> DraftAfterOriginal(fr, fetched)
      [] at = "await_draft" -> DraftAfterPost(fr, fetched)

\* where a handler that stands at step is after the responses, in order
RECURSIVE Replay(_, _)
Replay(step, responses) ==
    IF responses = <<>> \/ step.kind # "await" THEN step
    ELSE Replay(Resumed(step.pc, step.frame, fetchJson(Head(responses).response)),
                Tail(responses))

\* the call being handled, made as the first call of the process and given
\* the responses the call has received so far
CallMadeFirst ==
    Replay(CallToolHandler(call.name, call.arguments, env, NoClock),
           [i \in 1..Len(respLog) |-> [response |-> respLog[i].response]])

\* the handler stands where the same call made first stands
SameAsMadeFirst ==
    LET step == CallMadeFirst
    IN  IF step.kind = "await"
        THEN /\ pc = step.pc /\ frame = step.frame /\ inflight = step.requests
             /\ result = NoResult
        ELSE /\ pc = "done" /\ result = step.result
             /\ frame = NoFrame /\ inflight = <<>>

\* C28: no step of a request handler changes process.env or the catalog,
\* and at every point of a call other than get_time, whatever calls were
\* handled before it, the handler stands where the same call made first
\* stands after the same responses: same requests in flight, same result.
C28_NoSharedState ==
    /\ [][env' = env /\ tools' = tools]_vars
    /\ [](pc # "idle" /\ call.name # "get_time" => SameAsMadeFirst)

C28_UnreadAfterEarlierCall ==
    /\ earlier /\ env.GOOGLE_ACCESS_TOKEN = Undefined
    /\ pc = "done" /\ call.name = "get_unread_emails"
    /\ Failure /\ httpLog = <<>>

\* the names a sequence of names holds
NamesOf(names) == {names[i] : i \in DOMAIN names}

\* the request handler ended the call with the "Unknown tool" error
UnknownToolOutcome == result = Raised(<<"Unknown tool: ", call.name>>)

\* C29: the names of the catalog are pairwise distinct; every ListTools
\* request is answered with the catalog the module built; handleGmailTool
\* gives null exactly for the names that are not in gmailTools; and a call
\* ends with "Unknown tool" exactly when its name is not in the catalog.
C29_CatalogMatchesDispatcher ==
    /\ \A i, j \in DOMAIN tools : tools[i] = tools[j] => i = j
    /\ listed # NotListed => listed = [tools |-> toolsAtStartup]
    /\ pc # "idle" =>
           /\ handleGmailTool(call.name, Coalesce(call.arguments, Obj(<<>>)), env).kind
                  = "null"
                  <=> call.name \notin NamesOf(gmailTools)
           /\ pc = "done" => (UnknownToolOutcome <=> call.name \notin NamesOf(tools))

C29_ListedThenHandled ==
    /\ listed = [tools |-> toolsAtStartup] /\ earlier
    /\ pc = "done" /\ call.name = tools[Len(tools)]
    /\ result.outcome = "returned" /\ Len(httpLog) = 2

\* the most requests a call of the tool issues, the list response being what
\* the call received
MostRequests ==
    CASE call.name \in {"get_time", "gmail_get_auth_url"} -> 0
      [] call.name \in {"gmail_exchange_code", "gmail_refresh_access_token"} -> 1
      [] call.name = "create_draft_reply" -> 2
      [] call.name = "get_unread_emails" ->
             IF respLog = <<>> \/ respLog[1].fetched.threw THEN 1
             ELSE 1 + Len(ListedMessages)
      [] OTHER -> 0

\* a call never has more requests issued than the most of its tool, and no
\* request of it is in flight once it has ended
RequestsWithinBound ==
    pc # "idle" =>
        /\ Len(httpLog) <= MostRequests
        /\ pc = "done" => inflight = <<>> /\ Len(respLog) = Len(httpLog)

\* every call ends, with a result or with an error raised
CallEnds == pc # "idle" ~> pc = "done"

\* C30: every call of a tool of the catalog comes to its end with a result
\* returned, having issued at most 1 + N requests for get_unread_emails (N
\* the ids of the list response), 2 for create_draft_reply, 1 for the two
\* token operations and none for gmail_get_auth_url and get_time.
C30_CallReturns ==
    \A name \in NamesOf(toolsAtStartup) :
        (pc # "idle" /\ call.name = name)
            ~> (/\ pc = "done" /\ call.name = name
                /\ result.outcome = "returned"
                /\ Len(httpLog) <= MostRequests)

(***************************************************************************)
(* src/secrets.ts: loadSecrets.  process.env is a function from the names  *)
(* that are set to their values; the secrets file is missing or has a      *)
(* text.                                                                   *)
(***************************************************************************)
\* process.env[key]
EnvValue(e, key) == IF key \in DOMAIN e THEN e[key] ELSE Undefined

\* s.split(sep) for a separator of one character
RECURSIVE Split(_, _)
Split(s, sep) ==
    LET at == {i \in 1..Len(s) : s[i] = sep}
    IN  IF at = {} THEN <<s>>
        ELSE LET first == CHOOSE i \in at : \A j \in at : i <= j
             IN  <<SubSeq(s, 1, first - 1)>> \o Split(SubSeq(s, first + 1, Len(s)), sep)

\* raw.split(/\r?\n/): a carriage return before a line feed goes with it
RawLines(raw) ==
    LET pieces == Split(raw, "\n")
    IN  [i \in 1..Len(pieces) |->
            IF i < Len(pieces) /\ pieces[i] # <<>> /\ pieces[i][Len(pieces[i])] = "\r"
            THEN SubSeq(pieces[i], 1, Len(pieces[i]) - 1)
            ELSE pieces[i]]

\* the body of the loop overwriting what is set: a variant without the test
\* of process.env[key]
loadLineOverwriting(e, line) ==
    LET trimmed == Trim(line)
        parts == Split(trimmed, "=")
        key == Head(parts)
        rest == Tail(parts)
        value == Trim(Join(rest, <<"=">>))
    IN  IF trimmed = <<>> \/ Head(trimmed) = "#" THEN e
        ELSE IF key = <<>> \/ rest = <<>> THEN e
        ELSE (key :> Str(value)) @@ e

\* the body of the loop over the lines of the file
loadLine(e, line) ==
    LET trimmed == Trim(line)
        parts == Split(trimmed, "=")
        key == Head(parts)
        rest == Tail(parts)
        value == Trim(Join(rest, <<"=">>))
    IN  IF trimmed = <<>> \/ Head(trimmed) = "#" THEN e
        ELSE IF key = <<>> \/ rest = <<>> THEN e
        ELSE IF ~Truthy(EnvValue(e, key)) THEN (key :> Str(value)) @@ e
        ELSE e

RECURSIVE loadLines(_, _)
loadLines(e, lines) ==
    IF lines = <<>> THEN e ELSE loadLines(loadLine(e, Head(lines)), Tail(lines))

\* loadSecrets(): readFile throws for a missing file, and the catch ignores it
loadSecrets(e, file) ==
    IF ~file.exists THEN e ELSE loadLines(e, RawLines(file.raw))

(***************************************************************************)
(* The helpers of create_draft_reply and get_unread_emails on their own:   *)
(* a helper is handed one input, drawn from a bounded set, and its result  *)
(* is kept in result.                                                      *)
(***************************************************************************)
\* the longest Subject a helper is handed
MaxSubjectLen == 4

SubjectAlphabet == {"R", "r", "E", "e", ":", " ", "H"}

\* the strings over alphabet of at most n characters
Strings(alphabet, n) == UNION {[1..k -> alphabet] : k \in 0..n}

\* payloads with their Subject header, and one without it
SubjectPayloads ==
    {Obj([headers |-> Arr(<<>>)])}
    \cup {Obj([headers |-> Arr(<<Header(Subject, s)>>)])
          : s \in Strings(SubjectAlphabet, MaxSubjectLen)}

\* the headers buildReplyMime is handed: inReplyTo and references absent,
\* empty or set; a body of several lines, one of them empty
MimeHeaders ==
    {With(With([to |-> Str(<<"a", "@", "x">>), subject |-> Str(s), body |-> Str(b)],
               "inReplyTo", Str(i), i # <<"-">>),
          "references", Str(r), r # <<"-">>)
     : s \in {<<>>, <<"R", "e", ":", " ", "H", "i">>, <<"H", "\r", "\n", "\r", "\n", "X">>},
       i \in {<<"-">>, <<>>, <<"C">>},
       r \in {<<"-">>, <<>>, <<"A", " ", "C">>},
       b \in {<<>>, <<"o", "k">>,
              <<"a", "\r", "\n", "\r", "\n", "T", "o", ":", " ", "z">>}}

\* the most parts a payload has below its root
MaxParts == 3

\* the texts of the parts, by their number (the root is part 0), and their
\* base64url encodings
PartTexts == <<"a", "b", "c", "d", "e", "f">>

PartData ==
    <<<<"Y", "Q">>, <<"Y", "g">>, <<"Y", "w">>, <<"Z", "A">>, <<"Z", "Q">>, <<"Z", "g">>>>

\* what a part is: plain text with data, plain text with empty data, HTML
\* with data, a container without a body, or no object at all
PartKinds == {"plain", "plain-empty", "html", "multipart", "null"}

\* part i of a payload of Len(parent) parts, parent[k] being the part that
\* part k is in and kind[k + 1] what part k is
RECURSIVE PartTree(_, _, _)
PartTree(i, parent, kind) ==
    LET IsChild(k) == parent[k] = i
        children == SelectSeq([k \in 1..Len(parent) |-> k], IsChild)
        parts == Arr([c \in 1..Len(children) |-> PartTree(children[c], parent, kind)])
        k == kind[i + 1]
    IN  IF k = "null" THEN Null
        ELSE Obj(With(With(
                 [mimeType |-> CASE k \in {"plain", "plain-empty"} -> TextPlain
                                 [] k = "html" -> Str(<<"text/html">>)
                                 [] OTHER -> Str(<<"multipart/mixed">>)],
                 "body",
                 Obj([data |-> IF k = "plain-empty" THEN Str(<<>>) ELSE Str(PartData[i + 1])]),
                 k # "multipart"),
                 "parts", parts, children # <<>> \/ k = "multipart"))

\* the payloads extractPlainText is handed that are no tree of parts
NoPartTrees == {Undefined, Null, Str(<<"x">>)}

\* parent and kind describe a payload of n parts below its root
IsPartTree(n, parent, kind) ==
    /\ \A i \in 1..n : parent[i] < i
    /\ kind[1] # "null"

\* the responses fetchJson is handed: each status with each body
FetchStatuses == {200, 204, 400, 401, 404, 500}

FetchBodies ==
    {[kind |-> "empty"],
     [kind |-> "text", text |-> <<"<html>">>],
     [kind |-> "json", value |-> Null],
     [kind |-> "json", value |-> Num(5)],
     [kind |-> "json", value |-> Obj(<<>>)],
     [kind |-> "json", value |-> Obj([id |-> Str(<<"d", "1">>)])],
     [kind |-> "json", value |-> Obj([error |-> Null])],
     [kind |-> "json", value |-> Obj([error |-> Obj([message |-> Str(<<"m">>)])])],
     [kind |-> "json", value |-> Obj([error |-> Obj([message |-> Str(<<>>)])])],
     [kind |-> "json", value |-> Obj([error |-> Obj([message |-> Str(<<>>)]),
                                      error_description |-> Str(<<"d">>)])],
     [kind |-> "json", value |-> Obj([error |-> Obj([message |-> Str(<<"m">>)]),
                                      error_description |-> Str(<<"d">>)])],
     [kind |-> "json", value |-> Obj([error |-> Str(<<"invalid_grant">>),
                                      error_description |-> Str(<<"d">>)])],
     [kind |-> "json", value |-> Obj([error |-> Str(<<"invalid_grant">>),
                                      error_description |-> Str(<<>>)])]}

FetchResponses ==
    {[transport |-> "failed", ok |-> FALSE, status |-> 0, body |-> [kind |-> "empty"]]}
    \cup {[transport |-> "ok", ok |-> status \in 200..299, status |-> status, body |-> body]
          : status \in FetchStatuses, body \in FetchBodies}

\* the most lines a secrets file has
MaxLines == 2

\* the name the lines of the secrets files are about
SecretName == "GOOGLE_ACCESS_TOKEN"

\* the lines a secrets file is made of
SecretLines ==
    {<<>>, <<" ", "\t">>,
     <<SecretName, "=", "1">>, <<SecretName, "=", "2">>, <<SecretName, "=">>,
     <<" ", SecretName, "=", "x", "=", "y", " ">>,
     <<SecretName, " ", "=", " ", "z">>,
     <<"#", SecretName, "=", "3">>,
     <<SecretName>>, <<"=", "5">>}

\* the secrets files: none, and the texts of at most MaxLines lines, ended by
\* line feeds or by carriage return and line feed
SecretFiles ==
    {[exists |-> FALSE]}
    \cup {[exists |-> TRUE, raw |-> Join(lines, sep)]
          : lines \in UNION {[1..n -> SecretLines] : n \in 1..MaxLines},
            sep \in {<<"\n">>, <<"\r", "\n">>}}

\* process.env before loadSecrets: the name unset, set to nothing, or set
EnvsBefore ==
    {<<>>} \cup {(<<SecretName>> :> Str(v)) @@ (<<"HOME">> :> Str(<<"/">>))
                 : v \in {<<>>, <<"o", "l", "d">>}}

\* the longest text that is encoded and decoded again
MaxTextLen == 4

\* its characters: ">" and "?" make the "+" and "/" of base64
TextAlphabet == {">", "?", "a", "~", "=", "\n"}

\* the most pieces a text with entities is made of
MaxEntities == 2

\* the pieces: the six named entities, character references, names the table
\* does not have, references out of range, and text that is no entity
EntityPieces ==
    {<<"&", "a", "m", "p", ";">>, <<"&", "l", "t", ";">>, <<"&", "g", "t", ";">>,
     <<"&", "q", "u", "o", "t", ";">>, <<"&", "a", "p", "o", "s", ";">>,
     <<"&", "n", "b", "s", "p", ";">>,
     <<"&", "#", "6", "5", ";">>, <<"&", "#", "x", "4", "1", ";">>,
     <<"&", "#", "X", "4", "1", ";">>, <<"&", "#", "x", "3", "c", ";">>,
     <<"&", "f", "o", "o", ";">>, <<"&", "A", "M", "P", ";">>,
     <<"&", "v", "a", "l", "u", "e", "O", "f", ";">>,
     <<"&", "#", "1", "1", "1", "4", "1", "1", "2", ";">>,
     <<"&", "#", "x", "1", "1", "0", "0", "0", "0", ";">>,
     <<"&", "#", ";">>, <<"&", "a", "m", "p">>, <<"&">>, <<"a">>}

HelperCalls ==
    {[name |-> "replySubject", arguments |-> payload] : payload \in SubjectPayloads}
    \cup {[name |-> "buildReplyMime", arguments |-> headers] : headers \in MimeHeaders}
    \cup {[name |-> "extractPlainText", arguments |-> payload] : payload \in NoPartTrees}
    \cup {[name |-> "fetchJson", arguments |-> response] : response \in FetchResponses}
    \cup {[name |-> "decodeHtmlEntities", arguments |-> pieces]
          : pieces \in UNION {[1..n -> EntityPieces] : n \in 0..MaxEntities}}
    \cup {[name |-> "base64Url", arguments |-> text]
          : text \in Strings(TextAlphabet, MaxTextLen)}
    \cup {[name |-> "loadSecrets", arguments |-> [file |-> file, before |-> e]]
          : file \in SecretFiles, e \in EnvsBefore}

\* no configuration: the helpers but loadSecrets read none
NoEnv ==
    [GOOGLE_CLIENT_ID |-> Undefined, GOOGLE_CLIENT_SECRET |-> Undefined,
     GOOGLE_ACCESS_TOKEN |-> Undefined, GOOGLE_REFRESH_TOKEN |-> Undefined,
     GOOGLE_REDIRECT_URI |-> Undefined]

HelperInit ==
    /\ pc = "idle"
    /\ \/ call \in HelperCalls
       \/ \E n \in 0..MaxParts :
              \E parent \in [1..n -> 0..(MaxParts - 1)], kind \in [1..(n + 1) -> PartKinds] :
                  /\ IsPartTree(n, parent, kind)
                  /\ call = [name |-> "extractPlainText",
                             arguments |-> PartTree(0, parent, kind)]
    /\ env = IF call.name = "loadSecrets" THEN call.arguments.before ELSE NoEnv
    /\ frame = NoFrame
    /\ inflight = <<>>
    /\ httpLog = <<>>
    /\ respLog = <<>>
    /\ result = NoResult
    /\ tools = toolsAtStartup
    /\ listed = NotListed
    /\ earlier = FALSE

\* the helper returns value
HelperReturns(value) ==
    /\ pc' = "done"
    /\ result' = Returned(value)
    /\ UNCHANGED <<env, call, frame, inflight, httpLog, respLog, tools, listed, earlier>>

EvalReplySubject ==
    /\ pc = "idle" /\ call.name = "replySubject"
    /\ HelperReturns(replySubject(call.arguments))

EvalBuildReplyMime ==
    /\ pc = "idle" /\ call.name = "buildReplyMime"
    /\ HelperReturns(Str(buildReplyMime(call.arguments)))

EvalExtractPlainText ==
    /\ pc = "idle" /\ call.name = "extractPlainText"
    /\ HelperReturns(extractPlainText(call.arguments))

\* fetchJson, once fetch() has its response or has failed
EvalFetchJson ==
    /\ pc = "idle" /\ call.name = "fetchJson"
    /\ HelperReturns(fetchJson(call.arguments))

\* loadSecrets, awaited once at startup: it returns nothing
EvalLoadSecrets ==
    /\ pc = "idle" /\ call.name = "loadSecrets"
    /\ pc' = "done"
    /\ env' = loadSecrets(env, call.arguments.file)
    /\ result' = Returned(Undefined)
    /\ UNCHANGED <<call, frame, inflight, httpLog, respLog, tools, listed, earlier>>

\* base64UrlEncode of a text, and base64UrlDecode of what it gave
EvalBase64Url ==
    /\ pc = "idle" /\ call.name = "base64Url"
    /\ LET encoded == base64UrlEncode(call.arguments)
       IN  HelperReturns([encoded |-> encoded, decoded |-> base64UrlDecode(encoded)])

\* decodeHtmlEntities of the text the pieces make
EvalDecodeHtmlEntities ==
    /\ pc = "idle" /\ call.name = "decodeHtmlEntities"
    /\ HelperReturns(decodeHtmlEntities(Join(call.arguments, <<>>)))

HelperNext ==
    \/ EvalLoadSecrets
    \/ EvalDecodeHtmlEntities
    \/ EvalBase64Url
    \/ EvalReplySubject
    \/ EvalBuildReplyMime
    \/ EvalExtractPlainText
    \/ EvalFetchJson

HelperSpec == HelperInit /\ [][HelperNext]_vars

\* the helper name has returned
Evaluated(name) == pc = "done" /\ call.name = name

\* the original Subject the helper was handed, "" when there is none
GivenSubject ==
    LET headers == call.arguments.o.headers.a
    IN  IF headers = <<>> THEN <<>> ELSE headers[1].o.value.s

\* s begins with "re:" in any casing
HasRePrefix(s) ==
    Len(s) >= 3 /\ s[1] \in {"r", "R"} /\ s[2] \in {"e", "E"} /\ s[3] = ":"

\* t is s without the white space at its end
IsEndTrimmed(t, s) ==
    /\ Len(t) <= Len(s)
    /\ t = SubSeq(s, 1, Len(t))
    /\ \A i \in (Len(t) + 1)..Len(s) : s[i] \in WhiteSpace
    /\ t = <<>> \/ t[Len(t)] \notin WhiteSpace

\* C11: the reply subject is the original Subject unchanged when it begins
\* with "re:" in any casing; otherwise it is "Re: " followed by the Subject
\* with the white space at the end of the whole taken off (so "Hello" gives
\* "Re: Hello", "Hello " too, and an empty or absent Subject gives "Re:").
\* The result always begins with "re:" in some casing, and deriving the
\* subject of the result gives the result again.
C11_ReplySubject ==
    Evaluated("replySubject") =>
        LET s == GivenSubject
            out == result.value.s
        IN  /\ HasRePrefix(s) => out = s
            /\ ~HasRePrefix(s) => IsEndTrimmed(out, <<"R", "e", ":", " ">> \o s)
            /\ HasRePrefix(out)
            /\ replySubject(Obj([headers |-> Arr(<<Header(Subject, out)>>)])) = Str(out)

C11_UpperCasePrefixKept ==
    /\ Evaluated("replySubject")
    /\ GivenSubject = <<"R", "E", ":", "H">>
    /\ result.value.s = <<"R", "E", ":", "H">>

\* C11 as the specification states it: a Subject that does not begin with
\* "re:" in any casing gives "Re: " followed by that Subject.
C11_PrefixThenSubject ==
    Evaluated("replySubject") /\ ~HasRePrefix(GivenSubject) =>
        result.value.s = <<"R", "e", ":", " ">> \o GivenSubject

\* the optional header field of the headers handed to buildReplyMime, ""
\* when it is absent
GivenField(field) ==
    IF field \in DOMAIN call.arguments THEN call.arguments[field].s ELSE <<>>

\* s has no line break
OneLine(s) == \A i \in 1..Len(s) : s[i] \notin {"\r", "\n"}

\* the first empty one of lines
FirstEmptyLine(lines) ==
    CHOOSE i \in 1..Len(lines) :
        lines[i] = <<>> /\ \A j \in 1..(i - 1) : lines[j] # <<>>

\* C13: the reply is the To line, the Content-Type line, the MIME-Version
\* line, the Subject line, the In-Reply-To line when inReplyTo is set, the
\* References line when references is set, an empty line and the body, in
\* this order, each followed by CRLF but the body.  When no header value has
\* a line break, the lines up to the first empty line are these header lines
\* and all that follows the first empty line is the body.
C13_MimeOrder ==
    Evaluated("buildReplyMime") =>
        LET h == call.arguments
            inReplyTo == GivenField("inReplyTo")
            references == GivenField("references")
            optional ==
                (IF inReplyTo # <<>> THEN <<InReplyToPrefix \o inReplyTo>> ELSE <<>>)
                \o (IF references # <<>> THEN <<ReferencesPrefix \o references>> ELSE <<>>)
            out == result.value.s
            lines == SplitLines(out)
        IN  /\ out = <<"T", "o", ":", " ">> \o h.to.s \o <<"\r", "\n">>
                     \o ContentTypeLine \o <<"\r", "\n">>
                     \o MimeVersionLine \o <<"\r", "\n">>
                     \o <<"S", "u", "b", "j", "e", "c", "t", ":", " ">> \o h.subject.s
                     \o <<"\r", "\n">>
                     \o (IF inReplyTo # <<>>
                         THEN InReplyToPrefix \o inReplyTo \o <<"\r", "\n">> ELSE <<>>)
                     \o (IF references # <<>>
                         THEN ReferencesPrefix \o references \o <<"\r", "\n">> ELSE <<>>)
                     \o <<"\r", "\n">> \o h.body.s
            /\ OneLine(h.subject.s) =>
                   /\ FirstEmptyLine(lines) = 5 + Len(optional)
                   /\ SubSeq(lines, 1, 4 + Len(optional))
                          = <<ToPrefix \o h.to.s, ContentTypeLine, MimeVersionLine,
                              SubjectPrefix \o h.subject.s>> \o optional
                   /\ Join(SubSeq(lines, 6 + Len(optional), Len(lines)), CRLF) = h.body.s

\* both optional lines, before the empty line and a body that has an empty
\* line of its own
C13_BothOptionalLines ==
    /\ Evaluated("buildReplyMime")
    /\ GivenField("inReplyTo") = <<"C">> /\ GivenField("references") = <<"A", " ", "C">>
    /\ call.arguments.subject.s = <<"R", "e", ":", " ", "H", "i">>
    /\ Len(call.arguments.body.s) = 10
    /\ SplitLines(result.value.s)[5] = InReplyToPrefix \o <<"C">>
    /\ SplitLines(result.value.s)[6] = ReferencesPrefix \o <<"A", " ", "C">>
    /\ SplitLines(result.value.s)[7] = <<>>

\* the parts directly in part
ChildrenOf(part) ==
    IF part.t = "object" /\ "parts" \in DOMAIN part.o /\ part.o.parts.t = "array"
    THEN part.o.parts.a ELSE <<>>

\* the inline data of part, "" when it has none
InlineData(part) ==
    IF /\ part.t = "object" /\ "body" \in DOMAIN part.o
       /\ part.o.body.t = "object" /\ "data" \in DOMAIN part.o.body.o
    THEN part.o.body.o.data.s ELSE <<>>

IsPlain(part) ==
    part.t = "object" /\ "mimeType" \in DOMAIN part.o
    /\ part.o.mimeType = Str(<<"text/plain">>)

\* the text that data is the encoding of
TextOf(data) == <<PartTexts[CHOOSE i \in 1..Len(PartData) : PartData[i] = data]>>

\* the parts one level below those of level, left to right
RECURSIVE NextLevel(_)
NextLevel(level) ==
    IF level = <<>> THEN <<>>
    ELSE ChildrenOf(Head(level)) \o NextLevel(Tail(level))

\* the parts of level and below, level by level and left to right
RECURSIVE LevelOrder(_)
LevelOrder(level) ==
    IF level = <<>> THEN <<>> ELSE level \o LevelOrder(NextLevel(level))

\* the parts below the root of the payload handed to extractPlainText
PartsBelowRoot == LevelOrder(ChildrenOf(call.arguments))

\* the places in order of the plain-text parts that have data
PlainWithData(order) ==
    {i \in 1..Len(order) : IsPlain(order[i]) /\ InlineData(order[i]) # <<>>}

\* part or a part below it is a leaf of type text/plain
RECURSIVE HasPlainLeaf(_)
HasPlainLeaf(part) ==
    \/ IsPlain(part) /\ ChildrenOf(part) = <<>>
    \/ \E i \in 1..Len(ChildrenOf(part)) : HasPlainLeaf(ChildrenOf(part)[i])

\* C14: extractPlainText returns null exactly when the payload is absent or
\* no object, or when its root has no inline data and no part at any depth
\* is of type text/plain with inline data; a text/plain part without data
\* does not count, and the inline data of the root counts whatever the type
\* of the root.
C14_NullWithoutPlainText ==
    Evaluated("extractPlainText") =>
        (result.value = Null
            <=> \/ call.arguments.t # "object"
                \/ /\ InlineData(call.arguments) = <<>>
                   /\ PlainWithData(PartsBelowRoot) = {})

\* null for a payload with HTML data two levels down and no text/plain part
C14_HtmlOnlyBelowRoot ==
    /\ Evaluated("extractPlainText")
    /\ call.arguments.t = "object"
    /\ ~HasPlainLeaf(call.arguments)
    /\ Len(PartsBelowRoot) = 2
    /\ Len(ChildrenOf(call.arguments)) = 1
    /\ InlineData(PartsBelowRoot[2]) # <<>>
    /\ result.value = Null

\* C14 as the specification states it: a payload without a leaf of type
\* text/plain gives null.
C14_NullWithoutPlainLeaf ==
    Evaluated("extractPlainText") /\ ~HasPlainLeaf(call.arguments) =>
        result.value = Null

\* C15: when the root of the payload has inline data, extractPlainText
\* returns the decoding of that data, whatever the type of the root and
\* whatever parts it has.
C15_RootDataWins ==
    Evaluated("extractPlainText") /\ InlineData(call.arguments) # <<>> =>
        result.value = Str(TextOf(InlineData(call.arguments)))

\* the data of the root returned over a text/plain part with data below it
C15_RootOverPlainPart ==
    /\ Evaluated("extractPlainText")
    /\ ~IsPlain(call.arguments)
    /\ InlineData(call.arguments) = PartData[1]
    /\ PlainWithData(PartsBelowRoot) # {}
    /\ result.value = Str(<<"a">>)

\* C16: when the root has no inline data, extractPlainText returns the
\* decoding of the first part, level by level and left to right, that is of
\* type text/plain and has inline data, and null when there is none; parts
\* of another type or without data are passed over and their parts are
\* looked at in turn.
C16_BreadthFirst ==
    Evaluated("extractPlainText") /\ call.arguments.t = "object"
    /\ InlineData(call.arguments) = <<>> =>
        LET order == PartsBelowRoot
            hits == PlainWithData(order)
        IN  result.value
                = IF hits = {} THEN Null
                  ELSE Str(TextOf(InlineData(
                           order[CHOOSE i \in hits : \A j \in hits : i <= j])))

\* the part directly below the root returned, though a text/plain part with
\* data one level further down stands before it in the payload
C16_ShallowerPartReturned ==
    /\ Evaluated("extractPlainText")
    /\ InlineData(call.arguments) = <<>>
    /\ Len(ChildrenOf(call.arguments)) = 2
    /\ ~IsPlain(ChildrenOf(call.arguments)[1])
    /\ PlainWithData(ChildrenOf(ChildrenOf(call.arguments)[1])) # {}
    /\ PlainWithData(ChildrenOf(call.arguments)) = {2}
    /\ result.value = Str(TextOf(InlineData(ChildrenOf(call.arguments)[2])))

\* the text at path of the JSON body of the response handed to fetchJson, ""
\* when the body is no JSON or has no text there
RECURSIVE TextAt(_, _)
TextAt(v, path) ==
    IF path = <<>> THEN (IF v.t = "string" THEN v.s ELSE <<>>)
    ELSE IF v.t = "object" /\ Head(path) \in DOMAIN v.o
    THEN TextAt(v.o[Head(path)], Tail(path))
    ELSE <<>>

BodyText(path) ==
    IF call.arguments.body.kind = "json"
    THEN TextAt(call.arguments.body.value, path) ELSE <<>>

\* C22: for a response whose status is not 2xx, fetchJson raises an error
\* whose message is the error.message of the body when that is there and
\* not empty, else its error_description when that is there and not empty,
\* else "Request failed with status N" for the status N (so for an empty
\* body and for a body that is no JSON); for a 2xx response it raises
\* nothing.
C22_RemoteErrorMessage ==
    Evaluated("fetchJson") /\ call.arguments.transport = "ok" =>
        IF call.arguments.status \in 200..299
        THEN ~result.value.threw
        ELSE /\ result.value.threw
             /\ result.value.message
                    = IF BodyText(<<"error", "message">>) # <<>>
                      THEN BodyText(<<"error", "message">>)
                      ELSE IF BodyText(<<"error_description">>) # <<>>
                      THEN BodyText(<<"error_description">>)
                      ELSE <<"Request failed with status ",
                             ToString(call.arguments.status)>>

\* the error.message of a 401 body taken though the body has an
\* error_description too
C22_MessageBeforeDescription ==
    /\ Evaluated("fetchJson")
    /\ call.arguments.status = 401
    /\ BodyText(<<"error", "message">>) = <<"m">>
    /\ BodyText(<<"error_description">>) = <<"d">>
    /\ result.value.threw /\ result.value.message = <<"m">>

\* the lines of the secrets file handed to loadSecrets, none when it is missing
FileLines ==
    IF call.arguments.file.exists THEN RawLines(call.arguments.file.raw) ELSE <<>>

\* the place of the first "=" of the trimmed line, 0 when it has none
EqualsAt(line) ==
    LET t == Trim(line)
        at == {i \in 1..Len(t) : t[i] = "="}
    IN  IF at = {} THEN 0 ELSE CHOOSE i \in at : \A j \in at : i <= j

\* line defines a name: it is no comment and has text before its first "="
IsDefinition(line) ==
    Trim(line) # <<>> /\ Head(Trim(line)) # "#" /\ EqualsAt(line) > 1

\* the name line defines: the text before its first "="
NameOf(line) == SubSeq(Trim(line), 1, EqualsAt(line) - 1)

\* the value line gives: the trimmed text after its first "="
ValueOf(line) == Trim(SubSeq(Trim(line), EqualsAt(line) + 1, Len(Trim(line))))

\* the values the lines of the file give for name, in the order of the file
ValuesFor(name) ==
    LET Defines(line) == IsDefinition(line) /\ NameOf(line) = name
        lines == SelectSeq(FileLines, Defines)
    IN  [i \in 1..Len(lines) |-> ValueOf(lines[i])]

\* the names the file defines
DefinedNames ==
    {NameOf(FileLines[i]) : i \in {j \in 1..Len(FileLines) : IsDefinition(FileLines[j])}}

\* C24: loadSecrets changes no variable that has a value that is not empty.
\* A variable that is unset or empty before has afterwards the value of the
\* first line of the file that defines it with a value that is not empty,
\* the value being the trimmed text after the first "=" of the line (later
\* "=" stay in the value) and the name the text before it; it is empty when
\* all the lines that define it give no value, and as before when no line
\* defines it.  Blank lines, lines that begin with "#", lines without "="
\* and lines that begin with "=" change nothing; a missing file changes
\* nothing, and loadSecrets returns in every case.
C24_LoadSecrets ==
    Evaluated("loadSecrets") =>
        LET before == call.arguments.before
        IN  /\ result.outcome = "returned"
            /\ DOMAIN env = DOMAIN before \cup DefinedNames
            /\ ~call.arguments.file.exists => env = before
            /\ \A name \in DOMAIN env :
                   LET values == ValuesFor(name)
                       given == {i \in 1..Len(values) : values[i] # <<>>}
                   IN  IF name \in DOMAIN before /\ before[name] # Str(<<>>)
                       THEN env[name] = before[name]
                       ELSE IF values = <<>> THEN env[name] = before[name]
                       ELSE env[name]
                                = Str(IF given = {} THEN <<>>
                                      ELSE values[CHOOSE i \in given : \A j \in given : i <= j])

\* a variable that was unset, defined by the second line of a file with
\* carriage returns, its value holding an "="
C24_ValueWithEquals ==
    /\ Evaluated("loadSecrets")
    /\ call.arguments.before = <<>>
    /\ Len(FileLines) = 2
    /\ FileLines[1] = <<"#", SecretName, "=", "3">>
    /\ \E i \in 1..Len(call.arguments.file.raw) : call.arguments.file.raw[i] = "\r"
    /\ env = (<<SecretName>> :> Str(<<"x", "=", "y">>))

\* C24 as the specification states it: a variable that has a value keeps it,
\* and a variable that was not set has the value of the first line that
\* defines it.
C24_FirstDefinitionWins ==
    Evaluated("loadSecrets") =>
        LET before == call.arguments.before
        IN  /\ \A name \in DOMAIN before :
                   before[name] # Str(<<>>) => env[name] = before[name]
            /\ \A name \in DefinedNames \ DOMAIN before :
                   env[name] = Str(ValuesFor(name)[1])

\* C25: decoding the base64url encoding of a text gives the text again,
\* whatever its length and also when its base64 form has "+" or "/"; the
\* encoding has none of "+", "/" and "=", and four characters for three of
\* the text without the padding.
C25_Base64UrlRoundTrip ==
    Evaluated("base64Url") =>
        /\ result.value.decoded = call.arguments
        /\ \A i \in 1..Len(result.value.encoded) :
               result.value.encoded[i] \notin {"+", "/", "="}
        /\ Len(result.value.encoded) = ((4 * Len(call.arguments)) + 2) \div 3

\* a text of four characters whose base64 form is "Pj4+Pw=="
C25_PlusAndPadding ==
    /\ Evaluated("base64Url")
    /\ call.arguments = <<">", ">", ">", "?">>
    /\ result.value.encoded = <<"P", "j", "4", "-", "P", "w">>
    /\ result.value.decoded = <<">", ">", ">", "?">>

\* what a piece of the text is to become: the character of a named entity or
\* of a character reference, and the piece itself in every other case
DecodedPiece(piece) ==
    CASE piece = <<"&", "a", "m", "p", ";">> -> <<"&">>
      [] piece = <<"&", "l", "t", ";">> -> <<"<">>
      [] piece = <<"&", "g", "t", ";">> -> <<">">>
      [] piece = <<"&", "q", "u", "o", "t", ";">> -> <<"\"">>
      [] piece = <<"&", "a", "p", "o", "s", ";">> -> <<"'">>
      [] piece = <<"&", "n", "b", "s", "p", ";">> -> <<" ">>
      [] piece = <<"&", "#", "6", "5", ";">> -> <<"A">>
      [] piece = <<"&", "#", "x", "4", "1", ";">> -> <<"A">>
      [] piece = <<"&", "#", "x", "3", "c", ";">> -> <<"<">>
      [] OTHER -> piece

\* C26: decodeHtmlEntities puts the character in the place of each of the
\* six named entities and of each decimal or hexadecimal character
\* reference, and leaves every other "&name;" and every reference that is
\* no code point as it is; it returns for every text.
C26_EntitiesDecoded ==
    Evaluated("decodeHtmlEntities") =>
        /\ result.outcome = "returned"
        /\ result.value
               = Join([i \in 1..Len(call.arguments) |-> DecodedPiece(call.arguments[i])],
                      <<>>)

\* the loop of extractPlainText ends on every part tree, and what it takes
\* from its queue is a beginning of the level order of the parts below the
\* root: each part is taken once at most
EachPartDequeuedOnce ==
    Evaluated("extractPlainText") =>
        LET taken == extractDequeues(ChildrenOf(call.arguments))
        IN  /\ Len(taken) <= Len(PartsBelowRoot)
            /\ taken = SubSeq(PartsBelowRoot, 1, Len(taken))

====
